---- MODULE Spec2Model ----
(***************************************************************************)
(* A model of the Sokoban solver: the board and state model of sokoban.py, *)
(* the four frontier strategies and the search driver of algorithms.py,    *)
(* and the heuristic evaluators of heuristic.py that the driver consults.  *)
(***************************************************************************)
EXTENDS Integers, Sequences, FiniteSets, TLC

VARIABLES game, algorithm, heuristics, bidirectional, maxFringeSize,
          pc, directions, checked, removed, d, current, branch,
          path, stats, raised, setOrder, instance, probe, result

vars == <<game, algorithm, heuristics, bidirectional, maxFringeSize,
          pc, directions, checked, removed, d, current, branch,
          path, stats, raised, setOrder, instance, probe, result>>

searchVars == <<game, algorithm, heuristics, bidirectional, maxFringeSize,
                pc, directions, checked, removed, d, current, branch,
                path, stats, raised, setOrder>>

(***************************************************************************)
(* Bounds of the model.                                                    *)
(***************************************************************************)
\* interior width and height of the walled room the puzzles are drawn from
RoomW == 3
RoomH == 2
\* largest frontier cap tried (caps 1..MaxCap, and -1 for no cap)
MaxCap == 3
\* number of set iteration orders a run may be given
NumOrders == 2
\* largest coordinate of the open (wall-less) board of the successor probe
OpenW == 2

(***************************************************************************)
(* coord.py                                                                *)
(***************************************************************************)
Coord(x, y) == <<x, y>>

CoordAdd(a, b) == <<a[1] + b[1], a[2] + b[2]>>

CoordSub(a, b) == <<a[1] - b[1], a[2] - b[2]>>

CoordLt(a, b) == IF a[1] = b[1] THEN a[2] < b[2] ELSE a[1] < b[1]

Abs(n) == IF n < 0 THEN -n ELSE n

\* Coord.distance with the default (manhattan) metric
distance(a, b) == Abs(a[1] - b[1]) + Abs(a[2] - b[2])

Origin == <<0, 0>>

(***************************************************************************)
(* sokoban.py: COMPASS, in the insertion order of the dict                 *)
(***************************************************************************)
COMPASS == << [direction |-> "N", coord |-> <<0, -1>>],
              [direction |-> "S", coord |-> <<0, 1>>],
              [direction |-> "E", coord |-> <<1, 0>>],
              [direction |-> "W", coord |-> <<-1, 0>> ] >>

NoParents == << >>

\* GameState.__init__: parents is the chain of back-pointers, nearest first
GameState(robot, boxes, parents, direction, reverse, pathCost) ==
    [robot |-> robot, boxes |-> boxes, parents |-> parents,
     direction |-> direction, reverse |-> reverse, pathLen |-> pathCost]

\* what __eq__ and __hash__ look at
Identity(s) == [robot |-> s.robot, boxes |-> s.boxes]

\* __eq__ made to look at the path length as well
StateEqWithLength(s, t) ==
    s.robot = t.robot /\ ((s.boxes \ t.boxes) \cup (t.boxes \ s.boxes)) = {} /\ s.pathLen = t.pathLen

\* GameState.__eq__
StateEq(s, t) == s.robot = t.robot /\ ((s.boxes \ t.boxes) \cup (t.boxes \ s.boxes)) = {}

\* GameState.__ne__
StateNe(s, t) == s.robot # t.robot \/ ((s.boxes \ t.boxes) \cup (t.boxes \ s.boxes)) # {}

\* GameState.__hash__: the hash of the pair (robot, boxes)
StateHash(s) == <<s.robot, s.boxes>>

\* table[key] = value on a dict keyed by states: an entry whose key has the
\* same hash and compares equal keeps its key and takes the value
TableSet(table, key, value) ==
    IF \E i \in 1..Len(table) : StateHash(table[i].key) = StateHash(key) /\ StateEq(table[i].key, key)
    THEN [i \in 1..Len(table) |->
            IF StateHash(table[i].key) = StateHash(key) /\ StateEq(table[i].key, key)
            THEN [key |-> table[i].key, value |-> value] ELSE table[i]]
    ELSE Append(table, [key |-> key, value |-> value])

\* key in table
TableHas(table, key) ==
    \E i \in 1..Len(table) : StateHash(table[i].key) = StateHash(key) /\ StateEq(table[i].key, key)

\* a state as seen through a back-pointer
Link(s) == [robot |-> s.robot, boxes |-> s.boxes, pathLen |-> s.pathLen,
            direction |-> s.direction, reverse |-> s.reverse]

ChainOf(s) == <<Link(s)>> \o s.parents

RECURSIVE SumDistance(_)
SumDistance(boxes) ==
    IF boxes = {} THEN 0
    ELSE LET b == CHOOSE c \in boxes : TRUE
         IN distance(b, Origin) + SumDistance(boxes \ {b})

\* GameState.__lt__
StateLt(s, t) ==
    IF s.robot # t.robot THEN CoordLt(s.robot, t.robot)
    ELSE SumDistance(s.boxes) < SumDistance(t.boxes)

\* one forward move of GameState.nextMoves in compass direction c
ForwardMove(s, c) ==
    LET robot == CoordAdd(s.robot, c.coord)
        boxes == IF robot \in s.boxes
                 THEN (s.boxes \ {robot}) \cup {CoordAdd(robot, c.coord)}
                 ELSE s.boxes
    IN GameState(robot, boxes, ChainOf(s), c.direction, FALSE, s.pathLen + 1)

\* the reverse moves without the test that the robot cannot come from a box
ReverseMovesFromBox(s, c) ==
    LET robot == CoordSub(s.robot, c.coord)
        moved == CoordAdd(s.robot, c.coord)
        plain == GameState(robot, s.boxes, ChainOf(s), c.direction, TRUE, s.pathLen + 1)
        pulled == GameState(robot, (s.boxes \ {moved}) \cup {s.robot}, ChainOf(s),
                            c.direction, TRUE, s.pathLen + 1)
    IN IF moved \in s.boxes THEN {pulled, plain} ELSE {plain}

\* the reverse moves of GameState.nextMoves in compass direction c
ReverseMoves(s, c) ==
    LET robot == CoordSub(s.robot, c.coord)
        moved == CoordAdd(s.robot, c.coord)
        plain == GameState(robot, s.boxes, ChainOf(s), c.direction, TRUE, s.pathLen + 1)
        pulled == GameState(robot, (s.boxes \ {moved}) \cup {s.robot}, ChainOf(s),
                            c.direction, TRUE, s.pathLen + 1)
    IN IF robot \in s.boxes THEN {}
       ELSE IF moved \in s.boxes THEN {pulled, plain}
       ELSE {plain}

\* GameState.nextMoves
nextMoves(s) ==
    IF ~s.reverse
    THEN {ForwardMove(s, COMPASS[i]) : i \in 1..4}
    ELSE UNION {ReverseMoves(s, COMPASS[i]) : i \in 1..4}

\* Sokoban.isLegal
isLegal(g, s) ==
    /\ s.robot \notin g.obstacles
    /\ s.boxes \cap g.obstacles = {}
    /\ Cardinality(s.boxes) = Cardinality(g.initialGameState.boxes)

\* the variant of isWon that leaves the legality test out
isWonUnchecked(g, s) == s.boxes \ g.storage = {}

\* Sokoban.isWon
isWon(g, s) == isLegal(g, s) /\ s.boxes \ g.storage = {}

\* successors without the filter of isLegal
successorsUnfiltered(g, s) == nextMoves(s)

\* Sokoban.successors
successors(g, s) == {t \in nextMoves(s) : isLegal(g, t)}


(***************************************************************************)
(* Iteration orders of Python sets: the order in which a set yields its    *)
(* members is fixed by the hashes of the build, not by the program.        *)
(* IterOrders is every order a set can be iterated in.                     *)
(***************************************************************************)
RECURSIVE IterOrders(_)
IterOrders(S) ==
    IF S = {} THEN { << >> }
    ELSE UNION { { <<x>> \o p : p \in IterOrders(S \ {x}) } : x \in S }

\* The order in which a run iterates a set of successors is one of the first
\* NumOrders of these: a ranking of the four move labels N, S, E, W (numbered
\* as in COMPASS); where a reverse move yields two states under one label,
\* the one generated first comes first.
OrderList == << <<1, 2, 3, 4>>, <<4, 3, 2, 1>>, <<3, 1, 4, 2>>, <<2, 4, 1, 3>> >>

SetOrders == { OrderList[i] : i \in 1..NumOrders }

CompassIndex(direction) == CHOOSE i \in 1..4 : COMPASS[i].direction = direction

\* whether t is the pulling one of the two states a reverse move yields
Pulled(s, t) == t.boxes # s.boxes

\* the sequence in which `for successor in successors(s)` visits the set S
Iterate(S, s, order) ==
    LET rank(t) == 2 * (CHOOSE k \in 1..4 : order[k] = CompassIndex(t.direction))
                   + (IF Pulled(s, t) THEN 0 ELSE 1)
    IN CHOOSE q \in IterOrders(S) : \A i, j \in 1..Len(q) : i < j => rank(q[i]) < rank(q[j])

RECURSIVE Concat(_)
Concat(seqs) == IF seqs = << >> THEN << >> ELSE Head(seqs) \o Concat(Tail(seqs))

\* itertools.combinations(S, n), as the set of its results
Subsets(S, n) == {T \in SUBSET S : Cardinality(T) = n}

\* the inner loop of solutions with its guard looking at the obstacles only
SolutionsOfBoxAmongBoxes(g, boxes, box) ==
    LET seed(c) ==
            LET robot == CoordSub(box, c.coord)
                final == GameState(robot, boxes, NoParents, "None", TRUE, 0)
            IN GameState(CoordSub(robot, c.coord), (boxes \ {box}) \cup {robot},
                         ChainOf(final), c.direction, TRUE, 0)
        blocked(c) ==
            LET robot == CoordSub(box, c.coord)
            IN {robot, CoordSub(robot, c.coord)} \cap g.obstacles # {}
        keep(i) == IF blocked(COMPASS[i]) THEN << >> ELSE << seed(COMPASS[i]) >>
    IN keep(1) \o keep(2) \o keep(3) \o keep(4)

\* Sokoban.solutions, inner loop: the seeds of one (boxes, box) pair in COMPASS order
SolutionsOfBox(g, boxes, box) ==
    LET seed(c) ==
            LET robot == CoordSub(box, c.coord)
                final == GameState(robot, boxes, NoParents, "None", TRUE, 0)
            IN GameState(CoordSub(robot, c.coord), (boxes \ {box}) \cup {robot},
                         ChainOf(final), c.direction, TRUE, 0)
        blocked(c) ==
            LET robot == CoordSub(box, c.coord)
            IN {robot, CoordSub(robot, c.coord)} \cap (g.obstacles \cup boxes) # {}
        keep(i) == IF blocked(COMPASS[i]) THEN << >> ELSE << seed(COMPASS[i]) >>
    IN keep(1) \o keep(2) \o keep(3) \o keep(4)

\* Sokoban.solutions: every sequence the generator can yield
solutions(g) ==
    LET boxStates == Subsets(g.storage, Cardinality(g.initialGameState.boxes))
        ofBoxes(boxes) ==
            { Concat([i \in 1..Len(o) |-> SolutionsOfBox(g, boxes, o[i])]) : o \in IterOrders(boxes) }
    IN UNION { { Concat(pick) : pick \in { f \in [1..Len(bs) -> UNION {ofBoxes(b) : b \in boxStates}] :
                                            \A i \in 1..Len(bs) : f[i] \in ofBoxes(bs[i]) } }
               : bs \in IterOrders(boxStates) }

(***************************************************************************)
(* heapq, as algorithms.py uses it: entries are (priority, state) tuples   *)
(***************************************************************************)
Entry(prio, state) == [prio |-> prio, state |-> state]

\* tuple comparison (priority, state) < (priority, state)
EntryLt(a, b) ==
    IF a.prio # b.prio THEN a.prio < b.prio
    ELSE IF StateEq(a.state, b.state) THEN FALSE
    ELSE StateLt(a.state, b.state)

RECURSIVE siftdown(_, _, _, _)
\* heapq._siftdown; positions are 0-based as in the library
siftdown(heap, startpos, pos, newitem) ==
    IF pos > startpos
    THEN LET parentpos == (pos - 1) \div 2
             parent == heap[parentpos + 1]
         IN IF EntryLt(newitem, parent)
            THEN siftdown([heap EXCEPT ![pos + 1] = parent], startpos, parentpos, newitem)
            ELSE [heap EXCEPT ![pos + 1] = newitem]
    ELSE [heap EXCEPT ![pos + 1] = newitem]

RECURSIVE siftup(_, _, _, _)
\* heapq._siftup
siftup(heap, startpos, pos, newitem) ==
    LET endpos == Len(heap)
        childpos == 2 * pos + 1
    IN IF childpos < endpos
       THEN LET rightpos == childpos + 1
                child == IF rightpos < endpos /\ ~EntryLt(heap[childpos + 1], heap[rightpos + 1])
                         THEN rightpos ELSE childpos
            IN siftup([heap EXCEPT ![pos + 1] = heap[child + 1]], startpos, child, newitem)
       ELSE siftdown([heap EXCEPT ![pos + 1] = newitem], startpos, pos, newitem)

heappush(heap, item) == siftdown(Append(heap, item), 0, Len(heap), item)

\* heappop of a non-empty heap: the item returned and the heap left
heappop(heap) ==
    LET lastelt == heap[Len(heap)]
        rest == SubSeq(heap, 1, Len(heap) - 1)
    IN IF rest # << >>
       THEN [item |-> rest[1], heap |-> siftup(rest, 0, 0, lastelt)]
       ELSE [item |-> lastelt, heap |-> rest]


(***************************************************************************)
(* heuristic.py                                                            *)
(***************************************************************************)
NoError == "None"

\* a dict assignment d[key] = v
Put(dict, key, v) == [k \in DOMAIN dict \cup {key} |-> IF k = key THEN v ELSE dict[k]]

RECURSIVE StarSum(_, _)
\* lines 329-331: the entries of the unreduced matrix at the stars
StarSum(original, stars) ==
    IF stars = {} THEN 0
    ELSE LET star == CHOOSE z \in stars : TRUE
         IN original[star[2]][star[1]] + StarSum(original, stars \ {star})

\* ndarray.min() of a non-empty row or column
Least(S) == CHOOSE m \in S : \A v \in S : m <= v

\* MinMatch._updateValues, line 159: the cached row of one box
boxClose(box, storageSeq) == [j \in 1..Len(storageSeq) |-> distance(box, storageSeq[j])]

\* lines 310-311: every row less its minimum (rows of a two-dimensional matrix are views)
ReduceRows(M) ==
    [r \in 1..Len(M) |-> [c \in 1..Len(M[r]) |-> M[r][c] - Least({M[r][j] : j \in 1..Len(M[r])})]]

RECURSIVE ReduceCols(_, _)
\* lines 320-322: column i and the columns after it, each less its minimum
ReduceCols(M, i) ==
    IF i > Len(M[1]) THEN M
    ELSE LET delta == Least({M[r][i] : r \in 1..Len(M)})
         IN ReduceCols([r \in 1..Len(M) |-> [M[r] EXCEPT ![i] = @ - delta]], i + 1)

\* lines 162-163 and 278-279: the bookkeeping of __coverMinimum around matrix M;
\* a star or prime is the pair <<column, row>>
CoverState(M) ==
    [M |-> M, starred |-> {}, primed |-> {}, rows |-> {}, cols |-> {},
     starredRows |-> << >>, starredCols |-> << >>,
     primedRows |-> << >>, primedCols |-> << >>,
     restart |-> FALSE, raised |-> NoError]

\* the row and the column of the i-th cell in the order of the nested enumerate loops
CellRow(M, i) == ((i - 1) \div Len(M[1])) + 1
CellCol(M, i) == ((i - 1) % Len(M[1])) + 1
NumCells(M) == Len(M) * Len(M[1])

RECURSIVE StarZeros(_, _)
\* lines 168-186 from cell i on
StarZeros(st, i) ==
    IF i > NumCells(st.M) THEN st
    ELSE LET r == CellRow(st.M, i)
             c == CellCol(st.M, i)
         IN IF <<c, r>> \in st.starred /\ r \notin st.rows
            THEN StarZeros([st EXCEPT !.cols = @ \cup {c}], i + 1)
            ELSE IF /\ st.M[r][c] = 0
                    /\ r \notin DOMAIN st.starredRows
                    /\ c \notin DOMAIN st.starredCols
            THEN StarZeros([st EXCEPT !.starred = @ \cup {<<c, r>>},
                                      !.starredCols = Put(@, c, <<c, r>>),
                                      !.starredRows = Put(@, r, <<c, r>>),
                                      !.cols = @ \cup {c}], i + 1)
            ELSE StarZeros(st, i + 1)

RECURSIVE ZeroChain(_, _, _, _)
\* lines 224-228: the alternating chain from a prime; the loop reads only
\* the current prime, so a prime met twice is a loop that never ends
ZeroChain(st, prime, zeros, seen) ==
    IF prime[1] \notin DOMAIN st.starredCols THEN [raised |-> NoError, zeros |-> zeros]
    ELSE LET star == st.starredCols[prime[1]]
         IN IF star[2] \notin DOMAIN st.primedRows THEN [raised |-> "KeyError", zeros |-> zeros]
            ELSE LET next == st.primedRows[star[2]]
                 IN IF next \in seen THEN [raised |-> "NoReturn", zeros |-> zeros]
                    ELSE ZeroChain(st, next, zeros \cup {star, next}, seen \cup {next})

\* lines 230-239: stars of the chain are dropped and its primes starred
Augment(st, zeros) ==
    LET added == zeros \ st.starred
    IN IF ~(added \subseteq st.primed) THEN [st EXCEPT !.raised = "KeyError"]
       ELSE [st EXCEPT
               !.starred = (@ \ zeros) \cup added,
               !.primed = @ \ added,
               !.starredCols = [x \in DOMAIN @ \cup {z[1] : z \in added} |->
                                  IF \E z \in added : z[1] = x
                                  THEN CHOOSE z \in added : z[1] = x ELSE @[x]],
               !.starredRows = [y \in DOMAIN @ \cup {z[2] : z \in added} |->
                                  IF \E z \in added : z[2] = y
                                  THEN CHOOSE z \in added : z[2] = y ELSE @[y]],
               !.rows = {}, !.cols = {}, !.restart = TRUE]

\* lines 199-202 and 219-222: the zero of row r and column c is primed
Primed(st, r, c) ==
    [st EXCEPT !.primed = @ \cup {<<c, r>>},
               !.primedCols = Put(@, c, <<c, r>>),
               !.primedRows = Put(@, r, <<c, r>>)]

\* lines 204-205 and 215: the prime's row has a star, whose column is
\* uncovered (set.remove of a column that is not covered) and the row covered
PrimeBesideStar(marked, r) ==
    IF marked.starredRows[r][1] \notin marked.cols
    THEN [marked EXCEPT !.raised = "KeyError"]
    ELSE [marked EXCEPT !.cols = @ \ {marked.starredRows[r][1]},
                        !.rows = @ \cup {r},
                        !.restart = TRUE]

\* lines 224-249: the prime's row has no star, and the chain from it is swapped
PrimeAlone(marked, chain) ==
    IF chain.raised # NoError THEN [marked EXCEPT !.raised = chain.raised]
    ELSE Augment(marked, chain.zeros)

\* the two branches of lines 198 and 218 on the zero just primed
PrimeAt(marked, r, c) ==
    IF r \in DOMAIN marked.starredRows THEN PrimeBesideStar(marked, r)
    ELSE PrimeAlone(marked, ZeroChain(marked, <<c, r>>, {<<c, r>>}, {<<c, r>>}))

\* the part the tests of lines 198 and 218 share
Uncovered(st, r, c) == st.M[r][c] = 0 /\ c \notin st.cols /\ r \notin st.rows

RECURSIVE PrimeZeros(_, _)
\* lines 196-252 from cell i on: the first uncovered zero is primed
PrimeZeros(st, i) ==
    IF i > NumCells(st.M) THEN st
    ELSE IF ~Uncovered(st, CellRow(st.M, i), CellCol(st.M, i)) THEN PrimeZeros(st, i + 1)
    ELSE PrimeAt(Primed(st, CellRow(st.M, i), CellCol(st.M, i)),
                 CellRow(st.M, i), CellCol(st.M, i))

\* line 260: 9999999999 in the source, above every entry of a matrix of
\* distances there as here, and written with fewer digits for TLC's integers
smallestStart == 9999999

\* lines 260-264
Smallest(st) ==
    Least({smallestStart} \cup {st.M[r][c] : r \in (1..Len(st.M)) \ st.rows,
                                            c \in (1..Len(st.M[1])) \ st.cols})

\* lines 271-279: the matrix adjusted by the smallest uncovered value, the bookkeeping cleared
AdjustBy(st, smallest) ==
    CoverState([r \in 1..Len(st.M) |-> [c \in 1..Len(st.M[1]) |->
        IF r \in st.rows /\ c \in st.cols THEN st.M[r][c] + smallest
        ELSE IF r \notin st.rows /\ c \notin st.cols THEN st.M[r][c] - smallest
        ELSE st.M[r][c]]])

\* lines 260-279
Adjust(st) == AdjustBy(st, Smallest(st))

\* rounds of the while loop of __coverMinimum a computation may take here
MaxRounds == 24

RECURSIVE coverMinimum(_, _)
\* lines 254-279: the end of one round of the while loop, s the bookkeeping after its two passes
EndRound(s, rounds) ==
    IF s.raised # NoError THEN s
    ELSE IF Cardinality(s.starred) = Len(s.M[1]) THEN s
    ELSE IF s.restart THEN coverMinimum(s, rounds - 1)
    ELSE coverMinimum(Adjust(s), rounds - 1)

\* MinMatch.__coverMinimum: the while loop of line 165, entered with len(starred) < len(storage)
coverMinimum(st, rounds) ==
    IF rounds = 0 THEN [st EXCEPT !.raised = "NoReturn"]
    ELSE EndRound(PrimeZeros(StarZeros([st EXCEPT !.restart = FALSE], 1), 1), rounds)

\* lines 329-332: the value from the stars, or the exception of the cover procedure
Valued(original, cover) ==
    IF cover.raised # NoError THEN [raised |-> cover.raised, val |-> 0]
    ELSE [raised |-> NoError, val |-> StarSum(original, cover.starred)]

\* lines 307-332 on a two-dimensional matrix
Matched(original) ==
    Valued(original, coverMinimum(CoverState(ReduceCols(ReduceRows(original), 1)), MaxRounds))

\* MinMatch.update, lines 298-332, for the boxes and the storage in the order
\* their sets are iterated.  With one box the matrix is the cached
\* one-dimensional row itself and __coverMinimum enumerates a scalar; with
\* no box the matrix is None.
update(boxSeq, storageSeq) ==
    IF Len(boxSeq) = 0 THEN [raised |-> "TypeError", val |-> 0]
    ELSE IF Len(boxSeq) = 1
    THEN IF Len(storageSeq) = 0 THEN [raised |-> NoError, val |-> 0]
         ELSE [raised |-> "TypeError", val |-> 0]
    ELSE IF Len(storageSeq) = 0 THEN [raised |-> "ValueError", val |-> 0]
    ELSE Matched([r \in 1..Len(boxSeq) |-> boxClose(boxSeq[r], storageSeq)])

RECURSIVE CoordOrder(_)
\* the members of a set of coordinates, least first by Coord.__lt__
CoordOrder(S) ==
    IF S = {} THEN << >>
    ELSE LET least == CHOOSE a \in S : \A b \in S \ {a} : CoordLt(a, b)
         IN <<least>> \o CoordOrder(S \ {least})

\* MinMatch.update on a box set not yet in the memo
MinMatchUpdate(boxes, storage) == update(CoordOrder(boxes), CoordOrder(storage))

\* the members of a sequence
Range(q) == { q[i] : i \in 1..Len(q) }

\* MinMatch.__init__: the fields of a new instance.  RealDistance is given a
\* Sokoban without extents, whose constructor takes max() over the obstacles.
MinMatchInit(storageSeq, obstacles) ==
    [name |-> "MinMatch", storage |-> storageSeq, boxes |-> {},
     boxClose |-> << >>, solved |-> << >>, val |-> 0,
     raised |-> IF obstacles = {} THEN "ValueError" ELSE NoError]

\* MinMatch._updateValues, lines 156-159: a row for every box that has none
Cached(h, boxSeq) ==
    [b \in DOMAIN h.boxClose \cup Range(boxSeq) |->
        IF b \in DOMAIN h.boxClose THEN h.boxClose[b] ELSE boxClose(b, h.storage)]

\* lines 329-332: the value is kept and stored in the memo, or the exception leaves update
Memoize(h, boxes, u) ==
    IF u.raised # NoError THEN [h EXCEPT !.raised = u.raised]
    ELSE [h EXCEPT !.val = u.val, !.raised = NoError, !.solved = Put(@, boxes, u.val)]

\* the cached row of box b after self.boxClose[b] was reduced in place
Zeroed(row) == [j \in 1..Len(row) |-> 0]

\* lines 298-332 on an instance whose memo does not hold the box set; rows is
\* self.boxClose after _updateValues.  One box: the matrix is the cached row
\* itself, not a copy, and the column reduction of lines 320-322 writes into it.
Evaluate(h, rows, boxSeq) ==
    IF Len(boxSeq) = 0 THEN [h EXCEPT !.boxClose = rows, !.raised = "TypeError"]
    ELSE IF Len(boxSeq) = 1
    THEN IF Len(h.storage) = 0
         THEN [h EXCEPT !.boxClose = rows, !.val = 0, !.raised = NoError,
                        !.solved = Put(@, Range(boxSeq), 0)]
         ELSE [h EXCEPT !.boxClose = Put(rows, boxSeq[1], Zeroed(rows[boxSeq[1]])),
                        !.raised = "TypeError"]
    ELSE IF Len(h.storage) = 0 THEN [h EXCEPT !.boxClose = rows, !.raised = "ValueError"]
    ELSE Memoize([h EXCEPT !.boxClose = rows], Range(boxSeq),
                 Matched([r \in 1..Len(boxSeq) |-> rows[boxSeq[r]]]))

\* MinMatch.update on an instance, boxSeq the new box set in the order it iterates
updateInstance(h, boxSeq) ==
    IF Range(boxSeq) \in DOMAIN h.solved
    THEN [h EXCEPT !.boxes = Range(boxSeq),
                   !.boxClose = Cached(h, boxSeq),
                   !.val = h.solved[Range(boxSeq)],
                   !.raised = NoError]
    ELSE Evaluate([h EXCEPT !.boxes = Range(boxSeq)], Cached(h, boxSeq), boxSeq)

\* no heuristic instance
NoInstance == << >>

\* IsStuck.maxValue
maxValue == 9999999

\* IsStuck.__init__: the fields update reads and writes
IsStuckInit(boxes, storage, obstacles) ==
    [name |-> "IsStuck", boxes |-> boxes, storage |-> storage, obstacles |-> obstacles,
     stuckSpots |-> {}, checked |-> {}, val |-> 0]

\* the labels of the sides of box on which an obstacle lies
obstacleTracker(box, obstacles) ==
    { COMPASS[i].direction : i \in { j \in 1..4 : CoordAdd(box, COMPASS[j].coord) \in obstacles } }

Corners == { {"N", "E"}, {"N", "W"}, {"S", "E"}, {"S", "W"} }

\* the variant of Pinned that leaves the storage test out
PinnedOnStorageToo(box, storage, obstacles) ==
    \E corner \in Corners : corner \subseteq obstacleTracker(box, obstacles)

\* the test all((box not in self.storage, any(obstacleTracker >= corner ...)))
Pinned(box, storage, obstacles) ==
    /\ box \notin storage
    /\ \E corner \in Corners : corner \subseteq obstacleTracker(box, obstacles)

\* the loop over self.boxes - self.checked, visited in the order q: it returns
\* at the first pinned box, leaving the boxes after it unchecked
IsStuckScan(h, q) ==
    LET hits == { i \in 1..Len(q) : Pinned(q[i], h.storage, h.obstacles) }
    IN IF hits = {}
       THEN [h EXCEPT !.val = 0, !.checked = @ \cup Range(q)]
       ELSE LET k == CHOOSE i \in hits : \A j \in hits : i <= j
            IN [h EXCEPT !.val = maxValue,
                         !.stuckSpots = @ \cup {q[k]},
                         !.checked = @ \cup { q[i] : i \in 1..k }]

\* IsStuck.update(boxes=...): storage and obstacles stay those of the puzzle
IsStuckUpdate(h, boxes, q) ==
    IF boxes \cap h.stuckSpots # {}
    THEN [h EXCEPT !.boxes = boxes, !.val = maxValue]
    ELSE IsStuckScan([h EXCEPT !.boxes = boxes], q)

\* the loop over self.heuristics.values() in GreedyBest.push and AStar.push:
\* its call of the MinMatch instance, if there is one
HeuristicSum(hs, val, storage) ==
    IF "MinMatch" \in hs
    THEN MinMatchUpdate(val.boxes, storage)
    ELSE [raised |-> NoError, val |-> 0]

\* the same loop's call of the direction's IsStuck instance, if it has one;
\* the puzzles searched have one box, so boxes - checked has one order
StuckSum(dir, val) ==
    IF "IsStuck" \in dir.heuristics
    THEN IsStuckUpdate(dir.isStuck, val.boxes, CoordOrder(val.boxes \ dir.isStuck.checked))
    ELSE dir.isStuck

\* int(h) of the IsStuck instance after the call
StuckVal(stuck) == IF stuck = NoInstance THEN 0 ELSE stuck.val

(***************************************************************************)
(* algorithms.py: the frontier strategies                                  *)
(***************************************************************************)
Algorithms == {"BFS", "DFS", "GreedyBest", "AStar"}

\* Algorithm.__init__: one direction's strategy instance and its visited table
Algorithm(name, g, hs, reverse) ==
    [name |-> name,
     reverse |-> reverse,
     boxes |-> IF reverse THEN g.storage ELSE g.initialGameState.boxes,
     storage |-> IF reverse THEN g.initialGameState.boxes ELSE g.storage,
     heuristics |-> hs,
     isStuck |-> IF "IsStuck" \in hs
                 THEN IsStuckInit(IF reverse THEN g.storage ELSE g.initialGameState.boxes,
                                  IF reverse THEN g.initialGameState.boxes ELSE g.storage,
                                  g.obstacles)
                 ELSE NoInstance,
     fringe |-> << >>,
     visited |-> << >>]

\* Heuristic constructors run by Algorithm.__init__: MinMatch builds a Sokoban
\* without extents, which takes max() over the obstacle set
HeuristicInitRaises(hs, g) == "MinMatch" \in hs /\ g.obstacles = {}

\* push of the selected strategy: the fringe after it, or the exception raised
push(alg, dir, val) ==
    IF alg \in {"BFS", "DFS"}
    THEN [raised |-> NoError, fringe |-> Append(dir.fringe, Entry(0, val)), isStuck |-> dir.isStuck]
    ELSE LET h == HeuristicSum(dir.heuristics, val, dir.storage)
             hSum == h.val + StuckVal(StuckSum(dir, val))
             prio == IF alg = "AStar" THEN hSum + val.pathLen ELSE hSum
         IN IF h.raised # NoError
            THEN [raised |-> h.raised, fringe |-> dir.fringe, isStuck |-> dir.isStuck]
            ELSE [raised |-> NoError, fringe |-> heappush(dir.fringe, Entry(prio, val)),
                  isStuck |-> StuckSum(dir, val)]

\* pop with the breadth-first frontier giving up its newest state
popNewest(alg, fringe) ==
    IF alg \in {"BFS", "DFS"}
    THEN [item |-> fringe[Len(fringe)], heap |-> SubSeq(fringe, 1, Len(fringe) - 1)]
    ELSE heappop(fringe)

\* pop of the selected strategy on a non-empty fringe
pop(alg, fringe) ==
    IF alg = "BFS" THEN [item |-> Head(fringe), heap |-> Tail(fringe)]
    ELSE IF alg = "DFS" THEN [item |-> fringe[Len(fringe)], heap |-> SubSeq(fringe, 1, Len(fringe) - 1)]
    ELSE heappop(fringe)

RECURSIVE pushAll(_, _, _)
\* the pushes of a sequence of states onto one direction, stopping at an exception
pushAll(alg, dir, vals) ==
    IF vals = << >> THEN [raised |-> NoError, fringe |-> dir.fringe, isStuck |-> dir.isStuck]
    ELSE LET r == push(alg, dir, Head(vals))
         IN IF r.raised # NoError THEN r
            ELSE pushAll(alg, [dir EXCEPT !.fringe = r.fringe, !.isStuck = r.isStuck], Tail(vals))

\* the pop of lines 192-193 without the discarding loop that follows it
popFirst(alg, fringe, visited, cur) ==
    IF fringe = << >> THEN [empty |-> TRUE, item |-> cur, fringe |-> fringe]
    ELSE [empty |-> FALSE, item |-> pop(alg, fringe).item.state, fringe |-> pop(alg, fringe).heap]

RECURSIVE popFresh(_, _, _, _)
\* lines 193-197: pop until a state is found that is not visited at a
\* smaller path length; empty is the IndexError of a pop on an empty fringe,
\* and item is the state the local variable current is left holding
popFresh(alg, fringe, visited, cur) ==
    IF fringe = << >> THEN [empty |-> TRUE, item |-> cur, fringe |-> fringe]
    ELSE LET p == pop(alg, fringe)
             popped == p.item.state
         IN IF Identity(popped) \in DOMAIN visited /\ visited[Identity(popped)] < popped.pathLen
            THEN popFresh(alg, p.heap, visited, popped)
            ELSE [empty |-> FALSE, item |-> popped, fringe |-> p.heap]

(***************************************************************************)
(* sokoban.py: GameState.getPath                                           *)
(***************************************************************************)
RECURSIVE Reverse(_)
Reverse(q) == IF q = << >> THEN << >> ELSE Append(Reverse(Tail(q)), Head(q))

\* getPath without the reversal of the forward branch
getPathUnreversed(s) ==
    IF ~s.reverse
    THEN [kind |-> "reversed", items |-> ChainOf(s)]
    ELSE [kind |-> "list", items |-> ChainOf(s)]

\* a forward state answers with reversed(path), an iterator; a reverse state with the list
getPath(s) ==
    IF ~s.reverse
    THEN [kind |-> "reversed", items |-> Reverse(ChainOf(s))]
    ELSE [kind |-> "list", items |-> ChainOf(s)]

\* whether p[:-1] can be evaluated: an iterator is not subscriptable
Subscriptable(p) == p.kind = "list"

AllButLast(p) == SubSeq(p.items, 1, Len(p.items) - 1)


(***************************************************************************)
(* The puzzles: a walled room with one robot, one box and one storage cell *)
(* on interior cells, the robot not on the box.                            *)
(***************************************************************************)
Interior == (1..RoomW) \X (1..RoomH)

Walls == ((0..(RoomW + 1)) \X (0..(RoomH + 1))) \ Interior

\* Sokoban.__init__
Sokoban(robot, boxes, storage, obstacles, X, Y) ==
    [storage |-> storage, obstacles |-> obstacles,
     initialGameState |-> GameState(robot, boxes, NoParents, "None", FALSE, 0),
     X |-> X, Y |-> Y]

Puzzles ==
    { g \in { Sokoban(r, {b}, {s}, Walls, RoomW + 1, RoomH + 1) :
                r \in Interior, b \in Interior, s \in Interior } :
        g.initialGameState.robot \notin g.initialGameState.boxes }

HeuristicChoices == { {}, {"MinMatch"} }

Caps == {-1} \cup (1..MaxCap)

(***************************************************************************)
(* algorithms.py: SearchPattern                                            *)
(***************************************************************************)
NoState == [robot |-> Origin, boxes |-> {}, parents |-> << >>, direction |-> "None",
            reverse |-> FALSE, pathLen |-> -1]

\* a positive timedelta, datetime.now() - start
Elapsed == 1

RECURSIVE factorial(_)
factorial(n) == IF n <= 1 THEN 1 ELSE n * factorial(n - 1)

\* the arguments math.factorial is called with at lines 159-161
UpperBoundArgs(g) ==
    LET cells == (g.X - 1) * (g.Y - 1)
        n == Cardinality(g.storage) + 1
    IN {cells, n, cells - n}

UpperBound(g) ==
    LET cells == (g.X - 1) * (g.Y - 1)
        n == Cardinality(g.storage) + 1
    IN (n * factorial(cells)) \div (factorial(n) * factorial(cells - n))

\* the stats dict as lines 156-168 build it
InitialStats(g) ==
    [k \in {"Solved", "Unique States Searched", "Upper Bound of Unique States",
            "Max Fringe Size", "Total Time", "Path Length"} |->
        CASE k = "Solved" -> 0
          [] k = "Unique States Searched" -> 0
          [] k = "Upper Bound of Unique States" -> UpperBound(g)
          [] k = "Max Fringe Size" -> 1
          [] k = "Total Time" -> 0
          [] k = "Path Length" -> 0]

\* stats['Solved'], a boolean kept as 0/1 beside the integer entries
SolvedStat == "Solved" \in DOMAIN stats /\ stats["Solved"] = 1

AverageKey == "Average Time per Unique State"

\* the division elapsed / count, kept as the pair it divides
Average(total, count) == count

\* the finally block, lines 240-246: the stats it leaves and what it raises
Finalize(st) ==
    LET timed == IF st["Total Time"] = 0 THEN [st EXCEPT !["Total Time"] = Elapsed] ELSE st
    IN IF timed["Unique States Searched"] = 0
       THEN [stats |-> timed, raised |-> "ZeroDivisionError"]
       ELSE [stats |-> (AverageKey :> Average(timed["Total Time"], timed["Unique States Searched"])) @@ timed,
             raised |-> NoError]

\* SearchPattern.finish, lines 147-152 (at least one state has been counted)
finish(st, p) ==
    (AverageKey :> Average(Elapsed, st["Unique States Searched"])) @@
    [st EXCEPT !["Total Time"] = Elapsed, !["Solved"] = 1, !["Path Length"] = Len(p)]

\* sum(len(directions[d][0]) for d in directions)
RECURSIVE FringeSum(_)
FringeSum(dirs) == IF dirs = << >> THEN 0 ELSE Len(Head(dirs).fringe) + FringeSum(Tail(dirs))

\* the keys of the directions dict: 'forward', or str(solution) of a seed
ForwardKey == [forward |-> TRUE, robot |-> Origin, boxes |-> {}]

SeedKey(s) == [forward |-> FALSE, robot |-> s.robot, boxes |-> s.boxes]

IsForward(dir) == dir.key = ForwardKey

HasForward(dirs) == \E i \in 1..Len(dirs) : IsForward(dirs[i])

ForwardOf(dirs) == dirs[CHOOSE i \in 1..Len(dirs) : IsForward(dirs[i])]

\* for d in removed: del directions[d]
RECURSIVE Remaining(_, _)
Remaining(dirs, gone) ==
    IF dirs = << >> THEN << >>
    ELSE IF Head(dirs).key \in gone THEN Remaining(Tail(dirs), gone)
    ELSE <<Head(dirs)>> \o Remaining(Tail(dirs), gone)

\* the state after SearchPattern.__init__
Init ==
    /\ game \in Puzzles
    /\ algorithm \in Algorithms
    /\ heuristics \in HeuristicChoices
    \* BFS.push and DFS.push never consult the heuristics
    /\ algorithm \in {"BFS", "DFS"} => heuristics = {}
    /\ bidirectional \in BOOLEAN
    /\ maxFringeSize \in Caps
    /\ pc = "start"
    /\ directions = << >>
    /\ checked = << >>
    /\ removed = {}
    /\ d = 0
    /\ current = NoState
    /\ branch = "none"
    /\ path = << >>
    /\ stats = << >>
    /\ raised = NoError
    /\ setOrder \in SetOrders
    /\ probe = NoState
    /\ instance = NoInstance
    /\ result = {}

\* the exits of searchPattern: leave through the finally block
Leave(st, exc) ==
    LET f == Finalize(st)
    IN /\ stats' = f.stats
       /\ raised' = IF f.raised # NoError THEN f.raised ELSE exc
       /\ pc' = "done"

\* directions[key] = value: a new key goes last, a known key keeps its place
DictSet(dirs, value) ==
    IF \E i \in 1..Len(dirs) : dirs[i].key = value.key
    THEN [i \in 1..Len(dirs) |-> IF dirs[i].key = value.key THEN value ELSE dirs[i]]
    ELSE Append(dirs, value)

RECURSIVE SeedDirections(_, _, _, _, _)
\* one reverse direction per seed, lines 179-181: directions[str(solution)] = ...; push(solution)
SeedDirections(alg, g, hs, seeds, dirs) ==
    IF seeds = << >> THEN [raised |-> NoError, dirs |-> dirs]
    ELSE LET a == [key |-> SeedKey(Head(seeds))] @@ Algorithm(alg, g, hs \ {"IsStuck"}, TRUE)
             p == push(alg, a, Head(seeds))
         IN IF p.raised # NoError THEN [raised |-> p.raised, dirs |-> DictSet(dirs, a)]
            ELSE SeedDirections(alg, g, hs, Tail(seeds), DictSet(dirs, [a EXCEPT !.fringe = p.fringe, !.isStuck = p.isStuck]))

\* lines 155-181: the stats dict, the forward direction and the reverse directions
Setup ==
    /\ pc = "start"
    /\ UNCHANGED <<game, algorithm, heuristics, bidirectional, maxFringeSize,
                   checked, removed, d, current, branch, path, setOrder, instance, probe, result>>
    /\ IF \E n \in UpperBoundArgs(game) : n < 0
       THEN /\ raised' = "ValueError" /\ pc' = "done"
            /\ UNCHANGED <<stats, directions>>
       ELSE /\ stats' = InitialStats(game)
            /\ IF HeuristicInitRaises(heuristics, game)
               THEN /\ raised' = "ValueError" /\ pc' = "done" /\ UNCHANGED directions
               ELSE LET fwd == [key |-> ForwardKey] @@ Algorithm(algorithm, game, heuristics, FALSE)
                        p == push(algorithm, fwd, game.initialGameState)
                    IN IF p.raised # NoError
                       THEN /\ raised' = p.raised /\ pc' = "done"
                            /\ directions' = <<fwd>>
                       ELSE \E seeds \in (IF bidirectional THEN solutions(game) ELSE { << >> }) :
                              LET rev == SeedDirections(algorithm, game, heuristics, seeds,
                                                        <<[fwd EXCEPT !.fringe = p.fringe, !.isStuck = p.isStuck]>>)
                              IN /\ directions' = rev.dirs
                                 /\ raised' = rev.raised
                                 /\ pc' = IF rev.raised # NoError THEN "done" ELSE "loop"

\* the while condition of lines 184-188, evaluated at a round boundary
LoopTest ==
    /\ pc = "loop"
    /\ UNCHANGED <<game, algorithm, heuristics, bidirectional, maxFringeSize,
                   directions, checked, current, branch, path, setOrder, instance, probe, result>>
    /\ IF ~HasForward(directions)
       THEN /\ Leave(stats, "KeyError")
            /\ UNCHANGED <<removed, d>>
       ELSE IF /\ ForwardOf(directions).fringe # << >>
               /\ (~bidirectional \/ Len(directions) > 1)
               /\ (maxFringeSize = -1 \/ FringeSum(directions) < maxFringeSize)
       THEN /\ pc' = "turn" /\ d' = 1 /\ removed' = {}
            /\ UNCHANGED <<stats, raised>>
       ELSE /\ Leave(stats, NoError)
            /\ UNCHANGED <<removed, d>>


\* the pop of direction d's turn
Popped == popFresh(algorithm, directions[d].fringe, directions[d].visited, current)

\* the end of a turn with the directions marked empty deleted at once
AdvanceDeleting(dirs, gone) ==
    IF d = Len(directions)
    THEN /\ directions' = Remaining(dirs, gone) /\ pc' = "loop" /\ d' = d
    ELSE /\ directions' = Remaining(dirs, gone) /\ pc' = "turn" /\ d' = d + 1

\* the end of one direction's turn: the next direction, or the removals that end the round
Advance(dirs, gone) ==
    IF d = Len(directions)
    THEN /\ directions' = Remaining(dirs, gone) /\ pc' = "loop" /\ d' = d
    ELSE /\ directions' = dirs /\ pc' = "turn" /\ d' = d + 1

\* lines 192-198: the direction's fringe runs empty, it is marked for removal
TurnEmpty ==
    /\ pc = "turn"
    /\ Popped.empty
    /\ removed' = removed \cup {directions[d].key}
    /\ current' = Popped.item
    /\ branch' = "empty"
    /\ Advance([directions EXCEPT ![d].fringe = Popped.fringe], removed')
    /\ UNCHANGED <<game, algorithm, heuristics, bidirectional, maxFringeSize,
                   checked, path, stats, raised, setOrder, instance, probe, result>>

Counted(st) == [st EXCEPT !["Unique States Searched"] = @ + 1]

\* the test of line 202 without its count of the directions
WinTestAnyCount(cur) == isWon(game, cur)

\* the test of line 202
WinTest(cur) == Len(directions) = 1 /\ isWon(game, cur)

\* the test of lines 208-211
MeetTest(dir, cur) ==
    /\ Identity(cur) \in DOMAIN checked
    /\ \/ IsForward(dir) /\ Identity(cur) \notin DOMAIN ForwardOf(directions).visited
       \/ ~IsForward(dir) /\ Identity(cur) \in DOMAIN ForwardOf(directions).visited

\* lines 202-206: the single-direction win test succeeds
TurnWin ==
    /\ pc = "turn"
    /\ ~Popped.empty
    /\ WinTest(Popped.item)
    /\ current' = Popped.item
    /\ stats' = Counted(stats)
    /\ path' = getPath(Popped.item).items
    /\ branch' = "win"
    /\ pc' = "finish"
    /\ directions' = [directions EXCEPT ![d].fringe = Popped.fringe]
    /\ UNCHANGED <<game, algorithm, heuristics, bidirectional, maxFringeSize,
                   checked, removed, d, raised, setOrder, instance, probe, result>>

\* lines 208-219: the popped identity was recorded by the opposite class of direction
TurnMeet ==
    /\ pc = "turn"
    /\ ~Popped.empty
    /\ ~WinTest(Popped.item)
    /\ MeetTest(directions[d], Popped.item)
    /\ current' = Popped.item
    /\ branch' = "meet"
    /\ directions' = [directions EXCEPT ![d].fringe = Popped.fringe]
    /\ LET cur == Popped.item
           other == checked[Identity(cur)]
           first == IF IsForward(directions[d]) THEN getPath(cur) ELSE getPath(other)
           second == IF IsForward(directions[d]) THEN getPath(other) ELSE getPath(cur)
       IN IF Subscriptable(first)
          THEN /\ path' = AllButLast(first) \o second.items
               /\ stats' = Counted(stats)
               /\ pc' = "finish"
               /\ UNCHANGED raised
          ELSE /\ Leave(Counted(stats), "TypeError")
               /\ UNCHANGED path
    /\ UNCHANGED <<game, algorithm, heuristics, bidirectional, maxFringeSize,
                   checked, removed, d, setOrder, instance, probe, result>>

\* lines 221-224
Record(chk, cur) ==
    IF Identity(cur) \in DOMAIN chk
    THEN [chk EXCEPT ![Identity(cur)] = IF cur.pathLen <= @.pathLen THEN cur ELSE @]
    ELSE (Identity(cur) :> cur) @@ chk

\* TurnExpand with one visited table shared by all directions
TurnExpandSharedTable ==
    /\ pc = "turn"
    /\ ~Popped.empty
    /\ ~WinTest(Popped.item)
    /\ ~MeetTest(directions[d], Popped.item)
    /\ current' = Popped.item
    /\ branch' = "expand"
    /\ checked' = Record(checked, Popped.item)
    /\ LET cur == Popped.item
           seen == (Identity(cur) :> cur.pathLen) @@ directions[d].visited
           dir == [directions[d] EXCEPT !.fringe = Popped.fringe, !.visited = seen]
           fresh == {t \in successors(game, cur) : Identity(t) \notin DOMAIN seen}
       IN LET order == Iterate(fresh, cur, setOrder) IN
            LET p == pushAll(algorithm, dir, order)
                own == [directions EXCEPT ![d] = [dir EXCEPT !.fringe = p.fringe, !.isStuck = p.isStuck]]
                dirs == [i \in 1..Len(own) |-> [own[i] EXCEPT !.visited = seen]]
                counted == Counted(stats)
                sized == [counted EXCEPT !["Max Fringe Size"] =
                              IF FringeSum(dirs) > @ THEN FringeSum(dirs) ELSE @]
            IN IF p.raised # NoError
               THEN /\ Leave(counted, p.raised)
                    /\ directions' = dirs
                    /\ UNCHANGED <<removed, d>>
               ELSE /\ stats' = sized
                    /\ Advance(dirs, removed)
                    /\ UNCHANGED <<removed, raised>>
    /\ UNCHANGED <<game, algorithm, heuristics, bidirectional, maxFringeSize,
                   path, setOrder, instance, probe, result>>

\* lines 221-235: record the state, expand it, push the successors not yet visited
TurnExpand ==
    /\ pc = "turn"
    /\ ~Popped.empty
    /\ ~WinTest(Popped.item)
    /\ ~MeetTest(directions[d], Popped.item)
    /\ current' = Popped.item
    /\ branch' = "expand"
    /\ checked' = Record(checked, Popped.item)
    /\ LET cur == Popped.item
           seen == (Identity(cur) :> cur.pathLen) @@ directions[d].visited
           dir == [directions[d] EXCEPT !.fringe = Popped.fringe, !.visited = seen]
           fresh == {t \in successors(game, cur) : Identity(t) \notin DOMAIN seen}
       IN LET order == Iterate(fresh, cur, setOrder) IN
            LET p == pushAll(algorithm, dir, order)
                dirs == [directions EXCEPT ![d] = [dir EXCEPT !.fringe = p.fringe, !.isStuck = p.isStuck]]
                counted == Counted(stats)
                sized == [counted EXCEPT !["Max Fringe Size"] =
                              IF FringeSum(dirs) > @ THEN FringeSum(dirs) ELSE @]
            IN IF p.raised # NoError
               THEN /\ Leave(counted, p.raised)
                    /\ directions' = dirs
                    /\ UNCHANGED <<removed, d>>
               ELSE /\ stats' = sized
                    /\ Advance(dirs, removed)
                    /\ UNCHANGED <<removed, raised>>
    /\ UNCHANGED <<game, algorithm, heuristics, bidirectional, maxFringeSize,
                   path, setOrder, instance, probe, result>>

\* self.finish(start); return -- and the finally block the return passes through
Finish ==
    /\ pc = "finish"
    /\ Leave(finish(stats, path), NoError)
    /\ UNCHANGED <<game, algorithm, heuristics, bidirectional, maxFringeSize,
                   directions, checked, removed, d, current, branch, path, setOrder, instance, probe, result>>

\* KeyboardInterrupt delivered inside the try block: except ... pass, then finally
Interrupt ==
    /\ pc \in {"loop", "turn", "finish"}
    /\ Leave(stats, NoError)
    /\ branch' = "interrupt"
    /\ UNCHANGED <<game, algorithm, heuristics, bidirectional, maxFringeSize,
                   directions, checked, removed, d, current, path, setOrder, instance, probe, result>>

Next ==
    \/ Setup
    \/ LoopTest
    \/ TurnEmpty
    \/ TurnWin
    \/ TurnMeet
    \/ TurnExpand
    \/ Finish
    \/ Interrupt

Spec == Init /\ [][Next]_vars


(***************************************************************************)
(* The search with the IsStuck heuristic handed to the strategy.           *)
(***************************************************************************)
InitDeadEnd ==
    /\ game \in Puzzles
    /\ algorithm \in Algorithms
    /\ heuristics = {"IsStuck"}
    /\ bidirectional \in BOOLEAN
    /\ maxFringeSize = -1
    /\ pc = "start"
    /\ directions = << >>
    /\ checked = << >>
    /\ removed = {}
    /\ d = 0
    /\ current = NoState
    /\ branch = "none"
    /\ path = << >>
    /\ stats = << >>
    /\ raised = NoError
    /\ setOrder \in SetOrders
    /\ probe = NoState
    /\ instance = NoInstance
    /\ result = {}

SpecDeadEnd == InitDeadEnd /\ [][Next]_vars

(***************************************************************************)
(* The search on walled corridors with two boxes.                          *)
(***************************************************************************)
\* length of the corridor
PairW == 5

PairCells == (1..PairW) \X {1}

PairWalls == ((0..(PairW + 1)) \X (0..2)) \ PairCells

PairPuzzles ==
    { g \in { Sokoban(r, bs, st, PairWalls, PairW + 1, 2) :
                r \in PairCells,
                bs \in { b \in SUBSET PairCells : Cardinality(b) = 2 },
                st \in { t \in SUBSET PairCells : Cardinality(t) = 2 } } :
        g.initialGameState.robot \notin g.initialGameState.boxes }

InitPair ==
    /\ game \in PairPuzzles
    /\ algorithm \in Algorithms
    /\ heuristics = {}
    /\ bidirectional \in BOOLEAN
    /\ maxFringeSize = -1
    /\ pc = "start"
    /\ directions = << >>
    /\ checked = << >>
    /\ removed = {}
    /\ d = 0
    /\ current = NoState
    /\ branch = "none"
    /\ path = << >>
    /\ stats = << >>
    /\ raised = NoError
    /\ setOrder \in SetOrders
    /\ probe = NoState
    /\ instance = NoInstance
    /\ result = {}

SpecPair == InitPair /\ [][Next]_vars

(***************************************************************************)
(* The set-up of a search whose fringe cap of 1 is met at once: rooms with *)
(* one or two boxes and as many storage cells, or one more.  solutions()   *)
(* reads the storage, the obstacles and the number of boxes only, so the   *)
(* robot starts in the first corner and the boxes beside it.               *)
(***************************************************************************)
SeedPuzzles ==
    { Sokoban(<<1, 1>>, bs, st, Walls, RoomW + 1, RoomH + 1) :
        bs \in { {<<2, 1>>}, {<<2, 1>>, <<3, 1>>} },
        st \in { t \in SUBSET Interior : Cardinality(t) \in 1..3 } }

InitSeeds ==
    /\ game \in { g \in SeedPuzzles :
                    Cardinality(g.storage) - Cardinality(g.initialGameState.boxes) \in {0, 1} }
    /\ algorithm \in Algorithms
    /\ heuristics = {}
    /\ bidirectional \in BOOLEAN
    /\ maxFringeSize = 1
    /\ pc = "start"
    /\ directions = << >>
    /\ checked = << >>
    /\ removed = {}
    /\ d = 0
    /\ current = NoState
    /\ branch = "none"
    /\ path = << >>
    /\ stats = << >>
    /\ raised = NoError
    /\ setOrder \in SetOrders
    /\ probe = NoState
    /\ instance = NoInstance
    /\ result = {}

\* the cap stops the loop before its first round
NextSeeds ==
    \/ Setup
    \/ LoopTest
    \/ Interrupt

SpecSeeds == InitSeeds /\ [][NextSeeds]_vars

(***************************************************************************)
(* The successor probe: successors applied to one forward state of a small *)
(* board that no wall encloses.                                            *)
(***************************************************************************)
OpenCells == (0..OpenW) \X (0..OpenW)

OpenBoards == { o \in SUBSET OpenCells : Cardinality(o) <= 1 }

InitMoves ==
    /\ \E o \in OpenBoards, r \in OpenCells, bs \in SUBSET OpenCells :
         /\ Cardinality(bs) \in {1, 2}
         /\ r \notin o \cup bs
         /\ bs \cap o = {}
         /\ game = Sokoban(r, bs, {}, o, OpenW, OpenW)
         /\ probe = GameState(r, bs, NoParents, "None", FALSE, 0)
    /\ algorithm = "BFS"
    /\ heuristics = {}
    /\ bidirectional = FALSE
    /\ maxFringeSize = -1
    /\ pc = "probe"
    /\ directions = << >>
    /\ checked = << >>
    /\ removed = {}
    /\ d = 0
    /\ current = NoState
    /\ branch = "none"
    /\ path = << >>
    /\ stats = << >>
    /\ raised = NoError
    /\ setOrder = OrderList[1]
    /\ instance = NoInstance
    /\ result = {}

\* self.game.successors(state)
Probe ==
    /\ pc = "probe"
    /\ result' = successors(game, probe)
    /\ pc' = "probed"
    /\ UNCHANGED <<game, algorithm, heuristics, bidirectional, maxFringeSize,
                   directions, checked, removed, d, current, branch,
                   path, stats, raised, setOrder, instance, probe>>

NextMoves == Probe

SpecMoves == InitMoves /\ [][NextMoves]_vars

\* the probe on a reverse state: a state as the reverse directions hold it
InitReverse ==
    /\ \E o \in OpenBoards, r \in OpenCells, bs \in SUBSET OpenCells :
         /\ Cardinality(bs) \in {1, 2}
         /\ r \notin o \cup bs
         /\ bs \cap o = {}
         /\ game = Sokoban(r, bs, {}, o, OpenW, OpenW)
         /\ probe = GameState(r, bs, NoParents, "None", TRUE, 0)
    /\ algorithm = "BFS"
    /\ heuristics = {}
    /\ bidirectional = TRUE
    /\ maxFringeSize = -1
    /\ pc = "probe"
    /\ directions = << >>
    /\ checked = << >>
    /\ removed = {}
    /\ d = 0
    /\ current = NoState
    /\ branch = "none"
    /\ path = << >>
    /\ stats = << >>
    /\ raised = NoError
    /\ setOrder = OrderList[1]
    /\ instance = NoInstance
    /\ result = {}

SpecReverse == InitReverse /\ [][NextMoves]_vars

(***************************************************************************)
(* Two states compared, hashed and stored as keys of one table.            *)
(***************************************************************************)
\* largest x of the row of cells the compared states are drawn from
LineW == 2

LineCells == (0..LineW) \X {0}

\* what a state carries besides its robot and boxes: path length, move
\* label, direction flag and predecessor chain
Carried ==
    { [pathLen |-> n, direction |-> l, reverse |-> v, parents |-> ps] :
        n \in 0..1, l \in {"None", "E"}, v \in BOOLEAN,
        ps \in { NoParents, <<[robot |-> <<0, 0>>, boxes |-> {<<1, 0>>}, pathLen |-> 0,
                                direction |-> "None", reverse |-> FALSE]>> } }

InitCompare ==
    /\ \E r1 \in LineCells, r2 \in LineCells,
          b1 \in SUBSET LineCells, b2 \in SUBSET LineCells, c \in Carried :
         /\ Cardinality(b1) \in {1, 2}
         /\ Cardinality(b2) \in {1, 2}
         /\ probe = GameState(r1, b1, NoParents, "None", FALSE, 0)
         /\ current = GameState(r2, b2, c.parents, c.direction, c.reverse, c.pathLen)
         /\ game = Sokoban(r1, b1, {}, {}, LineW, 0)
    /\ algorithm = "BFS"
    /\ heuristics = {}
    /\ bidirectional = FALSE
    /\ maxFringeSize = -1
    /\ pc = "compare"
    /\ directions = << >>
    /\ checked = << >>
    /\ removed = {}
    /\ d = 0
    /\ branch = "none"
    /\ path = << >>
    /\ stats = << >>
    /\ raised = NoError
    /\ setOrder = OrderList[1]
    /\ instance = NoInstance
    /\ result = {}

\* probe == current, probe != current, hash(probe) == hash(current), and the
\* table after table[probe] = ...; table[current] = ...
Compare ==
    /\ pc = "compare"
    /\ result' = [eq |-> StateEq(probe, current),
                  ne |-> StateNe(probe, current),
                  hash |-> StateHash(probe) = StateHash(current),
                  found |-> TableHas(TableSet(<< >>, probe, probe.pathLen), current)]
    /\ checked' = TableSet(TableSet(<< >>, probe, probe.pathLen), current, current.pathLen)
    /\ pc' = "compared"
    /\ UNCHANGED <<game, algorithm, heuristics, bidirectional, maxFringeSize,
                   directions, removed, d, current, branch,
                   path, stats, raised, setOrder, instance, probe>>

NextCompare == Compare

SpecCompare == InitCompare /\ [][NextCompare]_vars

(***************************************************************************)
(* One minimum-matching instance and the update calls made on it.          *)
(***************************************************************************)
\* the cells the boxes and storage of the instance are drawn from
MatchW == 2
MatchH == 2
\* the most boxes (and storage cells) of an instance
MaxBoxes == 3
\* the most update calls made on an instance whose memo is followed
MaxCalls == 3

MatchCells == (1..MatchW) \X (1..MatchH)

\* the orders in which the sets of n cells can be iterated
Orderings(n) == UNION { IterOrders(S) : S \in { T \in SUBSET MatchCells : Cardinality(T) = n } }

\* the sets of n cells, each in Coord order
Ordered(n) == { CoordOrder(S) : S \in { T \in SUBSET MatchCells : Cardinality(T) = n } }

\* a new instance; storageSeqs are the storage tuples it may be given
InitInstance(storageSeqs) ==
    /\ \E ss \in storageSeqs :
         /\ instance = MinMatchInit(ss, {Origin})
         /\ game = Sokoban(Origin, {}, Range(ss), {Origin}, MatchW, MatchH)
    /\ algorithm = "AStar"
    /\ heuristics = {"MinMatch"}
    /\ bidirectional = FALSE
    /\ maxFringeSize = -1
    /\ pc = "update"
    /\ directions = << >>
    /\ checked = << >>
    /\ removed = {}
    /\ d = 0
    /\ current = NoState
    /\ probe = NoState
    /\ branch = "none"
    /\ path = << >>
    /\ stats = << >>
    /\ raised = NoError
    /\ setOrder = OrderList[1]
    /\ result = {}

\* heuristic.update(boxes=...) on the instance: d counts the calls, result
\* keeps the instance as it was before the call
UpdateCall(boxSeqs, limit) ==
    /\ pc = "update"
    /\ d < limit
    /\ \E bs \in boxSeqs : instance' = updateInstance(instance, bs)
    /\ result' = instance
    /\ d' = d + 1
    /\ UNCHANGED <<game, algorithm, heuristics, bidirectional, maxFringeSize,
                   pc, directions, checked, removed, current, branch,
                   path, stats, raised, setOrder, probe>>

InitMatch == InitInstance(UNION { Orderings(n) : n \in 1..MaxBoxes })

NextMatch == UpdateCall(Orderings(Len(instance.storage)), 1)

\* one update call on a new instance, for every order of boxes and storage
SpecMatch == InitMatch /\ [][NextMatch]_vars

InitMemo == InitInstance(UNION { Ordered(n) : n \in 1..2 })

NextMemo == UpdateCall(Ordered(Len(instance.storage)), MaxCalls)

\* a run of update calls on one instance of one or two boxes
SpecMemo == InitMemo /\ [][NextMemo]_vars

(***************************************************************************)
(* The forward direction's minimum-matching instance, updated on the       *)
(* states the puzzle reaches.                                              *)
(***************************************************************************)
\* interior width and height of the walled room of the scored puzzles
ScoreW == 3
ScoreH == 2
\* the most moves made from the initial state before a state is scored
MaxSteps == 1

ScoreCells == (1..ScoreW) \X (1..ScoreH)

ScoreWalls ==
    ((0..(ScoreW + 1)) \X (0..(ScoreH + 1))) \ ScoreCells

\* a puzzle of one or two boxes and as many storage cells; the instance is
\* the one Algorithm.__init__ builds for the forward direction
InitScore ==
    /\ \E r \in ScoreCells, bs \in SUBSET ScoreCells, st \in SUBSET ScoreCells :
         /\ Cardinality(bs) \in {1, 2}
         /\ Cardinality(st) = Cardinality(bs)
         /\ r \notin bs
         /\ game = Sokoban(r, bs, st, ScoreWalls, ScoreW + 1, ScoreH + 1)
         /\ probe = game.initialGameState
         /\ instance = MinMatchInit(CoordOrder(st), ScoreWalls)
    /\ algorithm = "AStar"
    /\ heuristics = {"MinMatch"}
    /\ bidirectional = FALSE
    /\ maxFringeSize = -1
    /\ pc = "score"
    /\ directions = << >>
    /\ checked = << >>
    /\ removed = {}
    /\ d = 0
    /\ current = NoState
    /\ branch = "none"
    /\ path = << >>
    /\ stats = << >>
    /\ raised = NoError
    /\ setOrder = OrderList[1]
    /\ result = {}

\* h.update(robot=val.robot, boxes=val.boxes, ...) of AStar.push on the state at hand
Score ==
    /\ pc = "score"
    /\ instance' = updateInstance(instance, CoordOrder(probe.boxes))
    /\ pc' = "scored"
    /\ UNCHANGED <<game, algorithm, heuristics, bidirectional, maxFringeSize,
                   directions, checked, removed, d, current, branch,
                   path, stats, raised, setOrder, probe, result>>

\* a successor of the state at hand comes to be pushed
Move ==
    /\ pc = "scored"
    /\ instance.raised = NoError
    /\ d < MaxSteps
    /\ \E t \in successors(game, probe) : probe' = t
    /\ d' = d + 1
    /\ pc' = "score"
    /\ UNCHANGED <<game, algorithm, heuristics, bidirectional, maxFringeSize,
                   directions, checked, removed, current, branch,
                   path, stats, raised, setOrder, instance, result>>

NextScore == Score \/ Move

SpecScore == InitScore /\ [][NextScore]_vars

(***************************************************************************)
(* isLegal and isWon applied to one state of a small puzzle.               *)
(***************************************************************************)
\* largest x of the row of cells the puzzle and the state are drawn from
WonW == 2

WonCells == (0..WonW) \X {0}

InitWon ==
    /\ \E o \in SUBSET WonCells, st \in SUBSET WonCells, b0 \in SUBSET WonCells,
          r \in WonCells, bs \in SUBSET WonCells :
         /\ Cardinality(o) <= 1
         /\ game = Sokoban(Origin, b0, st, o, WonW, 0)
         /\ probe = GameState(r, bs, NoParents, "None", FALSE, 0)
    /\ algorithm = "BFS"
    /\ heuristics = {}
    /\ bidirectional = FALSE
    /\ maxFringeSize = -1
    /\ pc = "judge"
    /\ directions = << >>
    /\ checked = << >>
    /\ removed = {}
    /\ d = 0
    /\ current = NoState
    /\ branch = "none"
    /\ path = << >>
    /\ stats = << >>
    /\ raised = NoError
    /\ setOrder = OrderList[1]
    /\ instance = NoInstance
    /\ result = {}

\* self.game.isLegal(state) and self.game.isWon(state)
Judge ==
    /\ pc = "judge"
    /\ result' = [legal |-> isLegal(game, probe), won |-> isWon(game, probe)]
    /\ pc' = "judged"
    /\ UNCHANGED <<game, algorithm, heuristics, bidirectional, maxFringeSize,
                   directions, checked, removed, d, current, branch,
                   path, stats, raised, setOrder, instance, probe>>

NextWon == Judge

SpecWon == InitWon /\ [][NextWon]_vars

(***************************************************************************)
(* The search on a row board that no obstacle bounds: robot at the origin, *)
(* one box and one storage cell east of it.                                *)
(***************************************************************************)
\* x of the farthest storage cell
FarX == 3

\* largest extent Y a board is given
MaxY == 2

RowBoards ==
    { Sokoban(Origin, {<<b, 0>>}, {<<s, 0>>}, {}, X, Y) :
        b \in 1..(FarX - 1), s \in 2..FarX, X \in {FarX, FarX + 1}, Y \in 0..MaxY }

InitRow ==
    /\ game \in { g \in RowBoards : g.initialGameState.boxes # g.storage }
    /\ algorithm = "AStar"
    /\ heuristics \in HeuristicChoices
    /\ bidirectional = FALSE
    /\ maxFringeSize = -1
    /\ pc = "start"
    /\ directions = << >>
    /\ checked = << >>
    /\ removed = {}
    /\ d = 0
    /\ current = NoState
    /\ branch = "none"
    /\ path = << >>
    /\ stats = << >>
    /\ raised = NoError
    /\ setOrder \in SetOrders
    /\ probe = NoState
    /\ instance = NoInstance
    /\ result = {}

\* one direction on an endless board: its fringe never runs empty and no
\* other direction is there to meet
NextRow ==
    \/ Setup
    \/ LoopTest
    \/ TurnWin
    \/ TurnExpand
    \/ Finish
    \/ Interrupt

SpecRow == InitRow /\ [][NextRow]_vars

(***************************************************************************)
(* heuristic.py: IsStuck, one instance under a sequence of update calls     *)
(***************************************************************************)
StuckW == 2

MaxStuckCalls == 3

\* a row of floor cells and the cells around it that may hold obstacles
StuckCells == { <<x, 1>> : x \in 1..StuckW }

StuckRing == { <<x, y>> : x \in 1..StuckW, y \in {0, 2} } \cup { <<0, 1>>, <<StuckW + 1, 1>> }

InitStuck ==
    /\ \E st \in SUBSET StuckCells, obs \in SUBSET StuckRing :
         /\ game = Sokoban(Origin, {}, st, obs, StuckW + 1, 2)
         /\ instance = IsStuckInit({}, st, obs)
    /\ algorithm = "GreedyBest"
    /\ heuristics = {"IsStuck"}
    /\ bidirectional = FALSE
    /\ maxFringeSize = -1
    /\ pc = "update"
    /\ directions = << >>
    /\ checked = << >>
    /\ removed = {}
    /\ d = 0
    /\ current = NoState
    /\ probe = NoState
    /\ branch = "none"
    /\ path = << >>
    /\ stats = << >>
    /\ raised = NoError
    /\ setOrder = OrderList[1]
    /\ result = {}

\* h.update(boxes=...) on the instance, the unchecked boxes visited in any
\* order; d counts the calls, result keeps the instance as it was before
StuckCall ==
    /\ pc = "update"
    /\ d < MaxStuckCalls
    /\ \E bs \in (SUBSET StuckCells) \ {{}} :
         \E q \in IterOrders(bs \ instance.checked) :
            instance' = IsStuckUpdate(instance, bs, q)
    /\ result' = instance
    /\ d' = d + 1
    /\ UNCHANGED <<game, algorithm, heuristics, bidirectional, maxFringeSize,
                   pc, directions, checked, removed, current, branch,
                   path, stats, raised, setOrder, probe>>

NextStuck == StuckCall

SpecStuck == InitStuck /\ [][NextStuck]_vars

(***************************************************************************)
(* The rules of the game, stated apart from the program.                   *)
(***************************************************************************)
Cardinal == { <<0, -1>>, <<0, 1>>, <<1, 0>>, <<-1, 0>> }

\* b is reached from a by one robot step or one box push along v
Moved(g, a, b, v) ==
    LET to == <<a.robot[1] + v[1], a.robot[2] + v[2]>>
        beyond == <<to[1] + v[1], to[2] + v[2]>>
    IN /\ b.robot = to
       /\ to \notin g.obstacles
       /\ IF to \in a.boxes
          THEN /\ beyond \notin g.obstacles
               /\ beyond \notin a.boxes
               /\ b.boxes = (a.boxes \ {to}) \cup {beyond}
          ELSE b.boxes = a.boxes

LegalMove(g, a, b) == \E v \in Cardinal : Moved(g, a, b, v)

\* the states one legal move away from a
MovesFrom(g, a) ==
    { b \in { [robot |-> <<a.robot[1] + v[1], a.robot[2] + v[2]>>, boxes |-> bs] :
                v \in Cardinal,
                bs \in {a.boxes} \cup { (a.boxes \ {x}) \cup { <<x[1] + w[1], x[2] + w[2]>> } :
                                        x \in a.boxes, w \in Cardinal } } :
        LegalMove(g, a, b) }

WonIdentity(g, a) == a.boxes \subseteq g.storage

InExtent(g, a) ==
    \A c \in {a.robot} \cup a.boxes : c[1] \in 0..g.X /\ c[2] \in 0..g.Y

RECURSIVE Levels(_, _, _, _)
\* breadth-first levels of the game graph: the least number of moves to a won state, or -1
Levels(g, frontier, seen, n) ==
    IF \E a \in frontier : WonIdentity(g, a) THEN n
    ELSE IF frontier = {} THEN -1
    ELSE LET next == (UNION { MovesFrom(g, a) : a \in frontier }) \ seen
         IN Levels(g, next, seen \cup next, n + 1)

MinMoves(g) ==
    Levels(g, {Identity(g.initialGameState)}, {Identity(g.initialGameState)}, 0)

\* p is a solution: from the initial state to a won state by legal moves
IsSolution(g, p) ==
    /\ p # << >>
    /\ Identity(p[1]) = Identity(g.initialGameState)
    /\ WonIdentity(g, p[Len(p)])
    /\ \A i \in 1..(Len(p) - 1) : LegalMove(g, p[i], p[i + 1])

Examined == IF "Unique States Searched" \in DOMAIN stats THEN stats["Unique States Searched"] ELSE 0

Finalized ==
    /\ "Total Time" \in DOMAIN stats
    /\ stats["Total Time"] = Elapsed
    /\ AverageKey \in DOMAIN stats

\* the routine has come to its end without a keyboard interrupt
Ended == pc = "done" /\ branch # "interrupt"

(***************************************************************************)
(* Claims                                                                  *)
(***************************************************************************)

\* C1: in unidirectional mode, whenever the search is Solved the stored path
\* starts at the initial state, ends at a won state, and every consecutive
\* pair of its states is one legal forward move.
C1_SolvedPathIsSolution ==
    (~bidirectional /\ SolvedStat) => IsSolution(game, path)

\* C1 witness: a unidirectional search solved with a path of at least two
\* moves, one of them a push.
C1_Witness ==
    /\ ~bidirectional
    /\ SolvedStat
    /\ Len(path) >= 3
    /\ path[1].boxes # path[Len(path)].boxes

\* C2 (as claimed): a meeting detected in bidirectional mode ends the search
\* Solved with a spliced path that is a solution and holds the meeting
\* identity exactly once, whichever direction detects it.
C2_MeetingEndsSolved ==
    (bidirectional /\ branch = "meet" /\ pc = "done") =>
        /\ raised = NoError
        /\ SolvedStat
        /\ IsSolution(game, path)
        /\ Cardinality({ i \in 1..Len(path) : Identity(path[i]) = Identity(current) }) = 1

\* C3 (as claimed): on a solvable puzzle a bidirectional search without cap
\* ends Solved with a path of the least number of moves.
C3_BidirectionalShortest ==
    (bidirectional /\ Ended /\ maxFringeSize = -1 /\ heuristics = {} /\ MinMoves(game) >= 1) =>
        /\ raised = NoError
        /\ SolvedStat
        /\ IsSolution(game, path)
        /\ Len(path) - 1 = MinMoves(game)

\* C4 (as claimed): unidirectional A* with no heuristic or with the
\* minimum-matching heuristic ends, on a solvable puzzle, Solved with a path of
\* the least number of moves.
C4_AStarShortest ==
    (algorithm = "AStar" /\ ~bidirectional /\ Ended /\ maxFringeSize = -1
        /\ heuristics \subseteq {"MinMatch"} /\ MinMoves(game) >= 0) =>
        /\ raised = NoError
        /\ SolvedStat
        /\ IsSolution(game, path)
        /\ Len(path) - 1 = MinMoves(game)

\* C5 (as claimed): on a puzzle without solution the search, having examined
\* its states, ends normally: no exception escapes, Solved is false, the path
\* is empty and the elapsed-time and average statistics are set.
C5_UnsolvableEndsNormally ==
    (Ended /\ maxFringeSize = -1 /\ heuristics = {} /\ Examined > 0 /\ MinMoves(game) = -1) =>
        /\ raised = NoError
        /\ ~SolvedStat
        /\ path = << >>
        /\ Finalized

\* C6 (as claimed): an interrupt delivered while the main loop runs ends the
\* search with no exception escaping and with Total Time and Average Time per
\* Unique State set.
C6_InterruptFinalizes ==
    branch = "interrupt" => (raised = NoError /\ Finalized)

\* C7 (as claimed): when the search ends having examined zero states, the
\* finally block does not fail; the routine returns normally with the average set.
C7_ZeroStatesNoFailure ==
    (pc = "done" /\ "Total Time" \in DOMAIN stats /\ stats["Total Time"] = Elapsed /\ Examined = 0) =>
        (raised = NoError /\ AverageKey \in DOMAIN stats)

\* C8 (as claimed): with a cap set, every round begins with the combined
\* frontier size under the cap, and a loop test that finds the combined size
\* at or above the cap ends the search with Solved false and no error raised.
C8_CapEndsExhausted ==
    /\ [](pc = "turn" /\ d = 1 /\ maxFringeSize # -1 => FringeSum(directions) < maxFringeSize)
    /\ [][(pc = "loop" /\ maxFringeSize # -1 /\ FringeSum(directions) >= maxFringeSize
            /\ branch' # "interrupt")
          => (pc' = "done" /\ raised' = NoError /\ ~SolvedStat')]_vars

\* C9: in bidirectional mode the single-direction win test never produces
\* the result, even when the forward direction pops a won state: Solved is
\* reached through the meeting test only.
C9_NoWinTestWhenBidirectional ==
    bidirectional => (branch # "win" /\ (SolvedStat => branch = "meet"))

\* C9 witness: in bidirectional mode the forward direction has popped a won
\* state and expanded it.
C9_Witness ==
    /\ bidirectional
    /\ branch = "expand"
    /\ ~current.reverse
    /\ isWon(game, current)
    /\ ~SolvedStat

\* C10 (as claimed): successors of a legal forward state is exactly the set of
\* states one robot step or box push away in which nothing ends on an
\* obstacle, no box is pushed onto a box, and nothing leaves the board extent.
C10_SuccessorsWithinExtent ==
    pc = "probed" =>
        { Identity(t) : t \in result } =
            { b \in MovesFrom(game, Identity(probe)) : InExtent(game, b) }

\* C10 without its last condition: successors of a legal forward state is
\* exactly the set of states one robot step or box push away in which nothing
\* ends on an obstacle and no box is pushed onto a box.
C10_SuccessorsAreLegalMoves ==
    pc = "probed" =>
        /\ { Identity(t) : t \in result } = MovesFrom(game, Identity(probe))
        /\ \A t \in result : ~t.reverse /\ t.pathLen = probe.pathLen + 1

\* C10, the case examined: successors has returned a push and a state outside the extent,
\* and withheld a move.
C10_Witness ==
    /\ pc = "probed"
    /\ \E t \in result : t.boxes # probe.boxes
    /\ \E t \in result : ~InExtent(game, t)
    /\ Cardinality(result) < 4


\* the forward state of an identity
AsForward(a) == GameState(a.robot, a.boxes, NoParents, "None", FALSE, 0)

\* a is a legal state whose robot is not on a box
Proper(g, a) == isLegal(g, a) /\ a.robot \notin a.boxes

\* the identities around a: the robot and at most one box each displaced by
\* at most one cell along each axis
Around(a) ==
    LET steps == (-1..1) \X (-1..1)
    IN { [robot |-> <<a.robot[1] + v[1], a.robot[2] + v[2]>>, boxes |-> bs] :
           v \in steps,
           bs \in {a.boxes} \cup { (a.boxes \ {x}) \cup { <<x[1] + w[1], x[2] + w[2]>> } :
                                   x \in a.boxes, w \in steps } }

\* C11: the reverse successors of a legal state s whose robot is not on a box
\* are exactly the legal states t, robot not on a box, of which s is a forward
\* successor; each is one longer than s, so a chain of them replayed forward
\* is a legal forward path of the same length.
C11_ReverseIsInverseOfForward ==
    (pc = "probed" /\ probe.reverse) =>
        /\ \A t \in result :
             /\ Proper(game, t)
             /\ t.reverse
             /\ t.pathLen = probe.pathLen + 1
             /\ \E u \in successors(game, AsForward(t)) :
                  /\ Identity(u) = Identity(probe)
                  /\ u.direction = t.direction
        /\ \A a \in Around(Identity(probe)) :
             ( /\ Proper(game, a)
               /\ Identity(probe) \in { Identity(u) : u \in successors(game, AsForward(a)) } )
             => a \in { Identity(t) : t \in result }

\* C11 witness: the reverse successors hold a pull and a plain step, and one
\* direction was withheld because the robot would have come from a box.
C11_Witness ==
    /\ pc = "probed"
    /\ probe.reverse
    /\ \E t \in result : t.boxes # probe.boxes
    /\ \E t \in result : t.boxes = probe.boxes
    /\ \E i \in 1..4 : CoordSub(probe.robot, COMPASS[i].coord) \in probe.boxes


\* C12: two states with the same robot and the same boxes compare equal and
\* hash alike whatever else they carry, two states that differ in robot or
\* boxes compare unequal, and a table keyed by states holds one entry for
\* each (robot, boxes).
C12_EqualityIsIdentity ==
    pc = "compared" =>
        IF probe.robot = current.robot /\ probe.boxes = current.boxes
        THEN /\ result.eq /\ ~result.ne /\ result.hash /\ result.found
             /\ Len(checked) = 1
             /\ checked[1].value = current.pathLen
        ELSE /\ ~result.eq /\ result.ne /\ ~result.found
             /\ Len(checked) = 2

\* C12 witness: two states alike in robot and boxes and unlike in path
\* length, predecessor, move label and direction flag have been compared.
C12_Witness ==
    /\ pc = "compared"
    /\ Identity(probe) = Identity(current)
    /\ probe.pathLen # current.pathLen
    /\ probe.parents # current.parents
    /\ probe.direction # current.direction
    /\ probe.reverse # current.reverse


\* the least of a non-empty set of numbers
MinOf(S) == CHOOSE m \in S : \A v \in S : m <= v

RECURSIVE Optimum(_, _)
\* the least summed Manhattan distance of a one-to-one assignment of boxes to storage
Optimum(boxes, storage) ==
    IF boxes = {} THEN 0
    ELSE LET b == CHOOSE c \in boxes : TRUE
         IN MinOf({ Abs(b[1] - s[1]) + Abs(b[2] - s[2]) + Optimum(boxes \ {b}, storage \ {s}) :
                    s \in storage })

\* C13 (as claimed): for n boxes and n storage cells, n >= 1, update ends
\* without an exception and its value is the optimum of the assignment problem.
C13_MatchingIsOptimum ==
    (pc = "update" /\ d = 1) =>
        /\ instance.raised = NoError
        /\ instance.val = Optimum(instance.boxes, Range(instance.storage))

\* C13 for two boxes and more: update ends and its value is the optimum.
C13_MatchingIsOptimumFromTwo ==
    (pc = "update" /\ d = 1 /\ Len(instance.storage) >= 2) =>
        /\ instance.raised = NoError
        /\ instance.val = Optimum(instance.boxes, Range(instance.storage))

\* C13, the case examined: three boxes were matched at a cost that the
\* pairing in iteration order does not reach.
C13_Witness ==
    /\ pc = "update" /\ d = 1
    /\ Len(instance.storage) = 3
    /\ instance.raised = NoError
    /\ instance.val > 0
    /\ instance.val = Optimum(instance.boxes, Range(instance.storage))


\* the identities one robot step away from a, and those one push away
Walks(g, a) == { b \in MovesFrom(g, a) : b.boxes = a.boxes }
Pushes(g, a) == { b \in MovesFrom(g, a) : b.boxes # a.boxes }

RECURSIVE WalkClosure(_, _)
\* everything reached from the set by robot steps alone
WalkClosure(g, S) ==
    LET more == (UNION { Walks(g, a) : a \in S }) \ S
    IN IF more = {} THEN S ELSE WalkClosure(g, S \cup more)

RECURSIVE PushLevels(_, _, _, _)
\* the least number of pushes from the frontier to a won state, or -1
PushLevels(g, frontier, seen, n) ==
    IF \E a \in frontier : WonIdentity(g, a) THEN n
    ELSE IF frontier = {} THEN -1
    ELSE LET next == WalkClosure(g, UNION { Pushes(g, a) : a \in frontier }) \ seen
         IN PushLevels(g, next, seen \cup next, n + 1)

MinPushes(g, a) == PushLevels(g, WalkClosure(g, {a}), WalkClosure(g, {a}), 0)

\* C14 (as claimed): on every state reached from the initial state the
\* minimum-matching score exists and is at most the least number of pushes
\* from that state to a won state.
C14_MinMatchAdmissible ==
    pc = "scored" =>
        /\ instance.raised = NoError
        /\ MinPushes(game, Identity(probe)) >= 0 =>
             instance.val <= MinPushes(game, Identity(probe))

\* C14 for two boxes: the score exists and is at most the least number of pushes.
C14_MinMatchAdmissibleFromTwo ==
    (pc = "scored" /\ Cardinality(probe.boxes) >= 2) =>
        /\ instance.raised = NoError
        /\ MinPushes(game, Identity(probe)) >= 0 =>
             instance.val <= MinPushes(game, Identity(probe))

\* C14, the case examined: a state one move from the initial state of a
\* two-box puzzle is scored, the score is positive and the puzzle can be won from there.
C14_Witness ==
    /\ pc = "scored"
    /\ d = 1
    /\ Cardinality(probe.boxes) = 2
    /\ instance.val > 0
    /\ MinPushes(game, Identity(probe)) >= instance.val


\* the row of Manhattan distances from box b to the storage tuple
DistanceRow(b, storageSeq) ==
    [j \in 1..Len(storageSeq) |-> Abs(b[1] - storageSeq[j][1]) + Abs(b[2] - storageSeq[j][2])]

\* C15 (as claimed): every update call returns a score; a box set queried
\* before gets the score the memo holds for it; no call changes a result the
\* memo holds or a cached row of distances.  (result is the instance before
\* the call.)
C15_MemoAnswersRepeatedQuery ==
    (pc = "update" /\ d >= 1) =>
        /\ instance.raised = NoError
        /\ instance.boxes \in DOMAIN instance.solved
        /\ instance.solved[instance.boxes] = instance.val
        /\ instance.boxes \in DOMAIN result.solved =>
             instance.val = result.solved[instance.boxes]
        /\ \A bs \in DOMAIN result.solved :
             bs \in DOMAIN instance.solved /\ instance.solved[bs] = result.solved[bs]
        /\ \A b \in DOMAIN instance.boxClose :
             instance.boxClose[b] = DistanceRow(b, instance.storage)

\* C15 for instances of two boxes.
C15_MemoAnswersRepeatedQueryFromTwo ==
    (pc = "update" /\ d >= 1 /\ Len(instance.storage) >= 2) =>
        /\ instance.raised = NoError
        /\ instance.boxes \in DOMAIN instance.solved
        /\ instance.solved[instance.boxes] = instance.val
        /\ instance.boxes \in DOMAIN result.solved =>
             instance.val = result.solved[instance.boxes]
        /\ \A bs \in DOMAIN result.solved :
             bs \in DOMAIN instance.solved /\ instance.solved[bs] = result.solved[bs]
        /\ \A b \in DOMAIN instance.boxClose :
             instance.boxClose[b] = DistanceRow(b, instance.storage)

\* C15, the case examined: a box set is queried again after another box set
\* was evaluated in between.
C15_Witness ==
    /\ pc = "update"
    /\ d = 3
    /\ instance.boxes \in DOMAIN result.solved
    /\ result.boxes # instance.boxes
    /\ Cardinality(DOMAIN instance.solved) = 2


\* a box off the storage with an obstacle above or below it and one beside it
Wedged(g, b) ==
    /\ b \notin g.storage
    /\ \E v \in { <<0, -1>>, <<0, 1>> }, h \in { <<1, 0>>, <<-1, 0>> } :
         /\ <<b[1] + v[1], b[2] + v[2]>> \in g.obstacles
         /\ <<b[1] + h[1], b[2] + h[2]>> \in g.obstacles

\* C16: after every update call of a sequence on one IsStuck instance, the
\* score is the sentinel 9999999 exactly when some box of the box set just
\* given lies off the storage with obstacles on two perpendicular sides, and
\* 0 otherwise
C16_StuckIffWedged ==
    (pc = "update" /\ d >= 1) =>
        instance.val = (IF \E b \in instance.boxes : Wedged(game, b) THEN 9999999 ELSE 0)

\* a later call answered from the memo of stuck cells while another box of
\* the set lies on a storage cell in a corner of obstacles
C16_Witness ==
    /\ pc = "update" /\ d >= 2
    /\ instance.val = 9999999
    /\ instance.boxes \cap result.stuckSpots # {}
    /\ \E b \in instance.boxes :
         b \in game.storage /\ Wedged([game EXCEPT !.storage = {}], b)


\* the board of the scenario, whatever extent it is given
RowScenario ==
    /\ game.initialGameState.robot = <<0, 0>>
    /\ game.initialGameState.boxes = { <<1, 0>> }
    /\ game.storage = { <<3, 0>> }
    /\ game.obstacles = {}

\* C17: on the board with robot (0,0), box (1,0), storage (3,0) and no
\* obstacles, A* with the minimum-matching heuristic ends Solved with Path
\* Length 2, and the minimum-matching score of the initial state is 2
C17_RowScenarioSolved ==
    (RowScenario /\ heuristics = {"MinMatch"} /\ pc = "done" /\ branch # "interrupt") =>
        /\ raised = NoError
        /\ SolvedStat
        /\ stats["Path Length"] = 2
        /\ MinMatchUpdate(game.initialGameState.boxes, game.storage) = [raised |-> NoError, val |-> 2]

\* the same board searched by A* without a heuristic, with an extent the
\* state count can be computed for: Solved, and Path Length is the number of
\* states of the path, one more than its two moves
C17_RowPlainCountsStates ==
    (RowScenario /\ heuristics = {} /\ pc = "done" /\ branch # "interrupt" /\ game.Y = 2) =>
        /\ raised = NoError
        /\ SolvedStat
        /\ stats["Path Length"] = 3

\* a run of the scenario that got as far as the search loop and ended
C17_Witness ==
    /\ RowScenario /\ heuristics = {} /\ pc = "done" /\ branch = "win" /\ SolvedStat


\* robot and boxes off the obstacles, as many boxes as the puzzle began with
LegalState(g, a) ==
    /\ a.robot \notin g.obstacles
    /\ \A b \in a.boxes : b \notin g.obstacles
    /\ Cardinality(a.boxes) = Cardinality(g.initialGameState.boxes)

\* C18: isWon(state) is true exactly when the state is legal (robot and every
\* box off the obstacles, box count equal to the initial box count) and every
\* box is on a storage cell; isLegal is true exactly when the state is legal
C18_WonIffLegalAndStored ==
    pc = "judged" =>
        /\ result.legal = LegalState(game, probe)
        /\ result.won = (LegalState(game, probe) /\ \A b \in probe.boxes : b \in game.storage)

\* a state with a box, judged won, on a puzzle with an obstacle and a spare storage cell
C18_Witness ==
    /\ pc = "judged"
    /\ result.won
    /\ probe.boxes # {}
    /\ game.obstacles # {}
    /\ game.storage # probe.boxes


\* the step counts a popped state: a turn that got past the pops of lines 192-198
CountsState ==
    /\ pc = "turn"
    /\ stats'["Unique States Searched"] = stats["Unique States Searched"] + 1

\* the path length the direction at turn has recorded for the state it counts, or -1
RecordedLen ==
    IF Identity(current') \in DOMAIN directions[d].visited
    THEN directions[d].visited[Identity(current')]
    ELSE -1

\* C19: a state counted in a direction's turn is not in that direction's
\* visited table with a recorded path length smaller than or equal to its
\* own: such a state is discarded, so no identity is counted or expanded
\* twice by one direction at the same path length
C19_DiscardsVisitedAtSmallerOrEqual ==
    [][CountsState => (RecordedLen = -1 \/ RecordedLen > current'.pathLen)]_vars

\* what lines 193-197 discard: a state counted in a direction's turn is not
\* in that direction's visited table with a strictly smaller path length
C19_DiscardsVisitedAtSmaller ==
    [][CountsState => (RecordedLen = -1 \/ RecordedLen >= current'.pathLen)]_vars


\* a round of a bidirectional search has just deleted the last reverse
\* direction: the forward direction alone is left
ForwardLeftAlone ==
    /\ bidirectional
    /\ pc = "loop"
    /\ removed # {}
    /\ Len(directions) = 1
    /\ HasForward(directions)

\* the forward direction has states to pop and the fringe cap is not reached
ForwardCanGoOn ==
    /\ ForwardOf(directions).fringe # << >>
    /\ (maxFringeSize = -1 \/ FringeSum(directions) < maxFringeSize)

\* C20: in bidirectional mode, once every reverse direction has been removed
\* because its frontier emptied, the search goes on with a turn of the
\* forward direction (which then applies the win test)
C20_ForwardContinuesAlone ==
    [][(ForwardLeftAlone /\ ForwardCanGoOn /\ branch' # "interrupt")
           => (pc' = "turn" /\ d' = 1)]_vars

\* what the while condition of lines 184-188 does there: the routine ends,
\* not Solved, with states left on the forward fringe
C20_EndsWhenForwardAlone ==
    [][(ForwardLeftAlone /\ ForwardCanGoOn /\ branch' # "interrupt")
           => (pc' = "done" /\ raised' = NoError /\ ~SolvedStat')]_vars

\* the forward direction is left alone with states on its fringe
C20_Witness == ForwardLeftAlone /\ ForwardCanGoOn


\* the visited table of the direction with the given key, empty if it is gone
VisitedOf(dirs, key) ==
    IF \E i \in 1..Len(dirs) : dirs[i].key = key
    THEN dirs[CHOOSE i \in 1..Len(dirs) : dirs[i].key = key].visited
    ELSE << >>

\* the step expands a state in the turn of the direction with the given key
ExpandsFor(key) == CountsState /\ branch' = "expand" /\ directions[d].key = key

\* the least of the path length an identity was recorded with, if any, and a new one
LeastLen(old, id, len) == IF id \in DOMAIN old /\ old[id] < len THEN old[id] ELSE len

\* in one step, the entry of id in a direction's table goes from old to new
\* as a table of least expanded path lengths does
KeepsMinimum(key, old, new, id) ==
    IF ExpandsFor(key) /\ id = Identity(current')
    THEN id \in DOMAIN new /\ new[id] = LeastLen(old, id, current'.pathLen)
    ELSE (id \in DOMAIN old) = (id \in DOMAIN new) /\ (id \in DOMAIN old => new[id] = old[id])

\* C21: for every direction and identity, the recorded path length changes
\* only when the direction expands a state of that identity, and then becomes
\* the smaller of the recorded length and that state's: it never increases and
\* is always the least path length the direction has expanded the identity at
C21_VisitedKeepsMinimum ==
    [][\A i \in 1..Len(directions) :
          (\E j \in 1..Len(directions') : directions'[j].key = directions[i].key) =>
              \A id \in DOMAIN directions[i].visited \cup DOMAIN VisitedOf(directions', directions[i].key) :
                  KeepsMinimum(directions[i].key, directions[i].visited,
                               VisitedOf(directions', directions[i].key), id)]_vars

\* the chain of state s passes through the identity of state t at a path
\* length above t's: t's identity was expanded before at that longer length
DescendsFromLonger(s, t) ==
    \E n \in 1..Len(s.parents) :
        /\ [robot |-> s.parents[n].robot, boxes |-> s.parents[n].boxes] = Identity(t)
        /\ s.parents[n].pathLen > t.pathLen
        /\ s.parents[n].reverse = t.reverse

\* a state has just been expanded and recorded at a path length below the one
\* its identity was expanded at before: a state expanded since then descends
\* from the earlier, longer expansion
C21_Witness ==
    /\ pc \in {"turn", "loop"}
    /\ branch = "expand"
    /\ \E i \in 1..Len(directions) :
         /\ Identity(current) \in DOMAIN directions[i].visited
         /\ directions[i].visited[Identity(current)] = current.pathLen
    /\ \E x \in DOMAIN checked : DescendsFromLonger(checked[x], current)


\* no entry of a visited table that stays in the run changes its value in the step
EntriesKept ==
    \A i \in 1..Len(directions) :
        (\E j \in 1..Len(directions') : directions'[j].key = directions[i].key) =>
            \A id \in DOMAIN directions[i].visited :
                /\ id \in DOMAIN VisitedOf(directions', directions[i].key)
                /\ VisitedOf(directions', directions[i].key)[id] = directions[i].visited[id]

\* C22: with a breadth-first or depth-first frontier, a path length once
\* recorded for an identity in a direction's visited table is never changed
C22_FirstLengthKept == [][(algorithm \in {"BFS", "DFS"}) => EntriesKept]_vars

\* the breadth-first half: with a breadth-first frontier a recorded path
\* length is never changed
C22_FirstLengthKeptBreadthFirst == [][(algorithm = "BFS") => EntriesKept]_vars


\* the step expands a state in a turn of the forward direction
ForwardExpands == CountsState /\ branch' = "expand" /\ IsForward(directions[d])

\* C23: with the deadlock heuristic active, under every strategy the forward
\* direction never expands a state one of whose boxes is on a stuck
\* coordinate (off the storage, obstacles on two perpendicular sides)
C23_StuckNeverExpanded ==
    [][(ForwardExpands /\ "IsStuck" \in heuristics)
           => ~ \E b \in current'.boxes : Wedged(game, b)]_vars

\* the same for the coordinates the forward direction's detector has in its
\* memo of stuck cells when the state is popped
C23_MemoizedStuckNeverExpanded ==
    [][(ForwardExpands /\ "IsStuck" \in heuristics /\ directions[d].isStuck # NoInstance)
           => current'.boxes \cap directions[d].isStuck.stuckSpots = {}]_vars

\* what the sentinel does in a priority frontier: a state with a box on a
\* stuck coordinate is expanded only when the forward fringe holds no state
\* without one
C23_StuckExpandedLast ==
    [][(ForwardExpands /\ "IsStuck" \in heuristics /\ algorithm \in {"GreedyBest", "AStar"}
          /\ \E b \in current'.boxes : Wedged(game, b))
           => \A k \in 1..Len(directions[d].fringe) :
                  \E b \in directions[d].fringe[k].state.boxes : Wedged(game, b)]_vars


\* the states the run holds: those on the fringes, those in the table of
\* examined states and the one at hand
HeldStates ==
    UNION { { directions[i].fringe[k].state : k \in 1..Len(directions[i].fringe) }
            : i \in 1..Len(directions) }
    \cup { checked[x] : x \in DOMAIN checked }
    \cup (IF current = NoState THEN {} ELSE {current})

\* along the first n links of a chain, each state's path length is its
\* predecessor's plus one
LinkedFor(chain, n) ==
    \A k \in 1..n : chain[k].pathLen = chain[k + 1].pathLen + 1

\* C24: every state with a predecessor has its predecessor's path length
\* plus one, forward and reverse and the reverse seeds included, so that a
\* state's path length is the number of links from it to the end of its chain
C24_PathLenIsParentPlusOne ==
    \A s \in HeldStates :
        /\ LinkedFor(ChainOf(s), Len(s.parents))
        /\ s.pathLen = Len(s.parents)

\* the forward half: it holds of every forward state
C24_ForwardPathLenIsParentPlusOne ==
    \A s \in HeldStates :
        ~s.reverse => LinkedFor(ChainOf(s), Len(s.parents)) /\ s.pathLen = Len(s.parents)

\* the reverse half as the code has it: a reverse state's chain ends in a
\* seed and the final state the seed was built from, both of path length 0;
\* up to the seed each state has its predecessor's path length plus one
C24_ReversePathLenCountsFromSeed ==
    \A s \in HeldStates :
        s.reverse => /\ Len(s.parents) >= 1
                     /\ LinkedFor(ChainOf(s), Len(s.parents) - 1)
                     /\ s.pathLen = Len(s.parents) - 1
                     /\ ChainOf(s)[Len(s.parents) + 1].pathLen = 0


\* the states on the fringes of all directions
FringeStates ==
    UNION { { directions[i].fringe[k].state : k \in 1..Len(directions[i].fringe) }
            : i \in 1..Len(directions) }

\* C25: every state pushed onto a frontier (it is on that fringe when the
\* step that pushed it ends) has as many boxes as the initial state, its
\* robot on a cell without a box, and neither robot nor box on an obstacle
C25_PushedStatesWellFormed ==
    \A s \in FringeStates :
        /\ Cardinality(s.boxes) = Cardinality(game.initialGameState.boxes)
        /\ s.robot \notin s.boxes
        /\ s.robot \notin game.obstacles
        /\ \A b \in s.boxes : b \notin game.obstacles

\* two boxes lie in line ahead of the robot: the push would merge them
BoxesInLine(s) ==
    \E v \in Cardinal :
        /\ <<s.robot[1] + v[1], s.robot[2] + v[2]>> \in s.boxes
        /\ <<s.robot[1] + 2 * v[1], s.robot[2] + 2 * v[2]>> \in s.boxes

\* a forward state with two boxes in line ahead of the robot has been
\* expanded, and a reverse direction holds a state reached by a pull
C25_Witness ==
    /\ \E x \in DOMAIN checked : ~checked[x].reverse /\ BoxesInLine(checked[x])
    /\ \E s \in FringeStates :
         s.reverse /\ Len(s.parents) >= 2 /\ s.boxes # s.parents[1].boxes


\* the cells of the board that hold no obstacle
Floor(g) == ((0..g.X) \X (0..g.Y)) \ g.obstacles

\* a is a legal state, robot not on a box, from which a push along v leaves
\* every box on a storage cell
Approaches(g, a, v) ==
    /\ LegalState(g, a)
    /\ a.robot \notin a.boxes
    /\ \E b \in MovesFrom(g, a) :
         /\ Moved(g, a, b, v)
         /\ b.boxes # a.boxes
         /\ LegalState(g, b)
         /\ WonIdentity(g, b)

\* the goal approaches of the puzzle
GoalApproaches(g) ==
    { a \in { [robot |-> r, boxes |-> bs] :
                r \in Floor(g),
                bs \in { b \in SUBSET Floor(g) :
                           Cardinality(b) = Cardinality(g.initialGameState.boxes) } } :
        \E v \in Cardinal : Approaches(g, a, v) }

\* the reverse directions as set-up leaves them
ReverseDirections == { i \in 1..Len(directions) : ~IsForward(directions[i]) }

Keys(dirs) == [i \in 1..Len(dirs) |-> dirs[i].key]

\* a direction takes its turn in the step
TakesTurn == pc = "turn" /\ branch' # "interrupt"

\* a round begins with the forward direction's turn
RoundStartsForward ==
    (pc = "loop" /\ pc' = "turn") =>
        d' = 1 /\ IsForward(directions[1]) /\ Keys(directions') = Keys(directions)

\* a turn counts at most one state and records at most one, then hands over
\* to the next direction in order, or ends the round after the last
TurnThenNext ==
    TakesTurn =>
        /\ stats'["Unique States Searched"] \in
              { stats["Unique States Searched"], stats["Unique States Searched"] + 1 }
        /\ Cardinality(DOMAIN checked') <= Cardinality(DOMAIN checked) + 1
        /\ pc' = "turn" => d < Len(directions) /\ d' = d + 1
        /\ pc' = "loop" => d = Len(directions)

\* directions leave only when the last turn of a round ends, those marked
\* empty in the round and no others, and none ever comes back
RemovedAtRoundEnd ==
    pc \in {"loop", "turn", "finish"} =>
        IF pc = "turn" /\ pc' = "loop"
        THEN Keys(directions') = Keys(Remaining(directions, removed'))
        ELSE Keys(directions') = Keys(directions)

\* C27: the directions advance round-robin: every round gives each active
\* direction one turn in a fixed order, forward first; a turn counts and
\* expands at most one state; directions are removed only at the end of a
\* round and never added again
C27_RoundRobin == [][RoundStartsForward /\ TurnThenNext /\ RemovedAtRoundEnd]_vars

\* the third of three directions is at turn in a round after the first
C27_Witness ==
    /\ bidirectional
    /\ pc = "turn"
    /\ d = 3
    /\ Len(directions) = 3
    /\ stats["Unique States Searched"] >= 5


\* the direction of the given key in dirs
DirectionOf(dirs, key) == dirs[CHOOSE i \in 1..Len(dirs) : dirs[i].key = key]

\* C28: a direction's turn leaves the frontier and the visited table of
\* every other direction as they were
C28_TurnTouchesOwnDirectionOnly ==
    [][TakesTurn =>
          \A i \in 1..Len(directions) :
              (i # d /\ \E j \in 1..Len(directions') : directions'[j].key = directions[i].key) =>
                  /\ DirectionOf(directions', directions[i].key).fringe = directions[i].fringe
                  /\ DirectionOf(directions', directions[i].key).visited = directions[i].visited]_vars

\* a reverse direction has just expanded a state while the forward direction
\* holds states on its fringe and entries in its visited table
C28_Witness ==
    /\ pc \in {"turn", "loop"}
    /\ branch = "expand"
    /\ current.reverse
    /\ HasForward(directions)
    /\ ForwardOf(directions).fringe # << >>
    /\ DOMAIN ForwardOf(directions).visited # {}


\* the identities one move away from the identities of ids, in the forward
\* or the reverse move graph of the game
StepFrom(g, ids, rev) ==
    UNION {{Identity(t) : t \in successors(g, GameState(id.robot, id.boxes, NoParents, "", rev, 0))} :
           id \in ids}

RECURSIVE MovesTo(_, _, _, _, _, _)
\* the least number of moves from the identities of front to id, front being
\* n moves from the root and seen the identities nearer than that; -1 for none
MovesTo(g, rev, front, seen, id, n) ==
    IF id \in front THEN n
    ELSE IF front = {} THEN -1
    ELSE MovesTo(g, rev, StepFrom(g, front, rev) \ (seen \cup front), seen \cup front, id, n + 1)

\* the identity a direction's search starts from: the initial state, or its seed
RootOf(dir) ==
    IF IsForward(dir) THEN Identity(game.initialGameState)
    ELSE [robot |-> dir.key.robot, boxes |-> dir.key.boxes]

\* the fringe of the direction of the turn, before and after the step
FringeBefore == directions[d].fringe

FringeAfter == DirectionOf(directions', directions[d].key).fringe

\* the turn popped the first k entries of the fringe, oldest first, and left
\* the others in place ahead of whatever it pushed
PoppedOldest(k) ==
    /\ current' = FringeBefore[k].state
    /\ (\E j \in 1..Len(directions') : directions'[j].key = directions[d].key) =>
           /\ Len(FringeAfter) >= Len(FringeBefore) - k
           /\ SubSeq(FringeAfter, 1, Len(FringeBefore) - k) = SubSeq(FringeBefore, k + 1, Len(FringeBefore))

\* the fringe is in order of path length and starts no lower than any
\* state the direction has expanded
NeverShorter ==
    /\ \A j \in 1..(Len(FringeBefore) - 1) :
           FringeBefore[j].state.pathLen <= FringeBefore[j + 1].state.pathLen
    /\ \A id \in DOMAIN directions[d].visited :
           directions[d].visited[id] <= FringeBefore[1].state.pathLen

\* a state expanded under an identity the direction has not expanded before
\* is as many moves long as the shortest way from the direction's root
FirstAtMinimum ==
    (branch' = "expand" /\ Identity(current') \notin DOMAIN directions[d].visited) =>
        current'.pathLen = MovesTo(game, current'.reverse, {RootOf(directions[d])}, {},
                                   Identity(current'), 0)

\* C29: a breadth-first direction pops its states in the order they were
\* pushed, so the path lengths of the states it pops never decrease, and it
\* first expands an identity at the least number of moves from its root
C29_BreadthFirstOrder ==
    [][(algorithm = "BFS" /\ TakesTurn /\ FringeBefore # << >>) =>
          /\ \E k \in 1..Len(FringeBefore) : PoppedOldest(k)
          /\ NeverShorter
          /\ FirstAtMinimum]_vars

\* a breadth-first direction has expanded states of different path lengths,
\* the last of them two or more moves from the root, and its fringe still
\* holds a second copy of an identity it has expanded
C29_Witness ==
    /\ algorithm = "BFS"
    /\ pc \in {"turn", "loop"}
    /\ branch = "expand"
    /\ current.pathLen >= 2
    /\ \E i \in 1..Len(directions) :
         /\ Identity(current) \in DOMAIN directions[i].visited
         /\ directions[i].visited[Identity(current)] = current.pathLen
         /\ \E id \in DOMAIN directions[i].visited : directions[i].visited[id] < current.pathLen
         /\ \E n \in 1..Len(directions[i].fringe) :
                Identity(directions[i].fringe[n].state) \in DOMAIN directions[i].visited


\* the Solved statistic is set
Solved == "Solved" \in DOMAIN stats /\ stats["Solved"] = 1

\* the stored path ends in a state that satisfies the win condition
PathEndsWon == path # << >> /\ isWon(game, path[Len(path)])

\* C30: Solved is true only if the stored path is non-empty and ends in a
\* won state, and when the search routine has exited with Solved false the
\* stored path is empty
C30_SolvedMatchesPath ==
    /\ Solved => PathEndsWon
    /\ (pc = "done" /\ ~Solved) => path = << >>

\* the first half: Solved is true only with a stored path that ends in a won state
C30_SolvedOnlyWithWonPath == Solved => PathEndsWon

\* the second half for every exit but a cancellation: exhausted, capped or
\* aborted by an error, the routine leaves the stored path empty
C30_UnsolvedExitKeepsPathEmpty ==
    (pc = "done" /\ ~Solved /\ branch # "interrupt") => path = << >>


\* the combined fringe size the loop starts from: the initial state on the
\* forward fringe and, in a bidirectional run, one seed per reverse direction
InitialFringeSize ==
    IF bidirectional
    THEN LET seeds == CHOOSE q \in solutions(game) : TRUE
         IN 1 + Cardinality({SeedKey(seeds[i]) : i \in 1..Len(seeds)})
    ELSE 1

\* the run has a cap above the combined fringe size it starts from
CappedAboveStart == maxFringeSize > InitialFringeSize

\* C31: with a cap larger than the initial combined fringe size, the combined
\* size of all fringes and the Max Fringe Size statistic never exceed the cap
C31_FringeWithinCap ==
    (pc # "start" /\ CappedAboveStart) =>
        /\ FringeSum(directions) <= maxFringeSize
        /\ "Max Fringe Size" \in DOMAIN stats => stats["Max Fringe Size"] <= maxFringeSize

\* what the cap does guarantee: no round starts with the combined size at or
\* above the cap, the loop test ends the run there
C31_NoRoundStartsAtCap ==
    [][(pc = "loop" /\ maxFringeSize # -1 /\ FringeSum(directions) >= maxFringeSize) =>
          pc' = "done"]_vars

====
